---- MODULE Spec2Model ----
(***************************************************************************)
(* OrderKuota-Wrapper: the keyed client (src/src/OrderKuota.ts), the token *)
(* client and the first, untyped client (src/unnamed/part_006).            *)
(*                                                                         *)
(* A JavaScript string is a sequence of one-character strings; charCodeAt  *)
(* is the table CharCode.  A JavaScript number is a record: NaN, +/-       *)
(* Infinity, or the finite rational num/den.  An optional value is either  *)
(* Undefined or a value wrapped by Str.                                    *)
(***************************************************************************)
EXTENDS Integers, Sequences, FiniteSets, TLC

VARIABLES
    cls,            \* which class the client object is: "none" before new
    username, password, userid, apikey, pin,    \* the client's fields
    baseQrString,   \* optional field of the keyed and the token client
    token,          \* optional field of the token client
    last,           \* the last finished call: method, arguments, outcome
    crcIn, crcOut   \* calculateCRC16 applied on its own: input, result

vars == <<cls, username, password, userid, apikey, pin, baseQrString, token,
          last, crcIn, crcOut>>

fields == <<cls, username, password, userid, apikey, pin, baseQrString, token>>

-----------------------------------------------------------------------------
(* Bounds of the model.                                                    *)

MaxCrcLen == 3
MaxFields == 3
MaxAmount == 2

-----------------------------------------------------------------------------
(* Strings.                                                                *)

Digits == <<"0", "1", "2", "3", "4", "5", "6", "7", "8", "9">>
Upper  == <<"A", "B", "C", "D", "E", "F", "G", "H", "I", "J", "K", "L", "M",
            "N", "O", "P", "Q", "R", "S", "T", "U", "V", "W", "X", "Y", "Z">>
Lower  == <<"a", "b", "c", "d", "e", "f", "g", "h", "i", "j", "k", "l", "m",
            "n", "o", "p", "q", "r", "s", "t", "u", "v", "w", "x", "y", "z">>
Other  == <<" ", "+", ".", "-">>

Range(s) == { s[i] : i \in 1..Len(s) }
IndexIn(s, c) == CHOOSE i \in 1..Len(s) : s[i] = c

\* String.prototype.charCodeAt for the characters of the model (ASCII)
CharCodeTable ==
    [c \in Range(Digits) \cup Range(Upper) \cup Range(Lower) \cup Range(Other) |->
        IF c \in Range(Digits) THEN 47 + IndexIn(Digits, c)
        ELSE IF c \in Range(Upper) THEN 64 + IndexIn(Upper, c)
        ELSE IF c \in Range(Lower) THEN 96 + IndexIn(Lower, c)
        ELSE IF c = " " THEN 32 ELSE IF c = "+" THEN 43 ELSE IF c = "." THEN 46 ELSE 45]
CharCode(c) == CharCodeTable[c]
Codes(str) == [i \in 1..Len(str) |-> CharCode(str[i])]

\* String.prototype.toUpperCase
ToUpperCase(str) ==
    [i \in 1..Len(str) |->
        IF str[i] \in Range(Lower) THEN Upper[IndexIn(Lower, str[i])] ELSE str[i]]

RECURSIVE PadStart(_, _, _)
\* String.prototype.padStart with a one-character filler
PadStart(str, n, c) == IF Len(str) >= n THEN str ELSE PadStart(<<c>> \o str, n, c)

\* String.prototype.slice(from, to) with 0 <= from, to counted from 0
Slice(str, from, to) ==
    LET t == IF to > Len(str) THEN Len(str) ELSE to
    IN  IF from >= t THEN <<>> ELSE SubSeq(str, from + 1, t)

\* String.prototype.slice(0, -n)
SliceDropLast(str, n) == Slice(str, 0, IF Len(str) - n < 0 THEN 0 ELSE Len(str) - n)

\* String.prototype.slice(from)
SliceFrom(str, from) == Slice(str, from, Len(str))

StartsAt(str, pat, i) ==
    /\ i + Len(pat) <= Len(str)
    /\ \A k \in 1..Len(pat) : str[i + k] = pat[k]

\* String.prototype.indexOf: the first position (from 0) of pat, or -1
IndexOf(str, pat) ==
    IF \E i \in 0..Len(str) : StartsAt(str, pat, i)
    THEN CHOOSE i \in 0..Len(str) :
            /\ StartsAt(str, pat, i)
            /\ \A j \in 0..(i - 1) : ~StartsAt(str, pat, j)
    ELSE -1

\* String.prototype.includes
Includes(str, pat) == \E i \in 0..Len(str) : StartsAt(str, pat, i)

\* String.prototype.replace with a string pattern: the first occurrence only
Replace(str, pat, by) ==
    LET i == IndexOf(str, pat)
    IN  IF i = -1 THEN str
        ELSE Slice(str, 0, i) \o by \o SliceFrom(str, i + Len(pat))

-----------------------------------------------------------------------------
(* Integer operators of JavaScript.  calculateCRC16 applies them to values *)
(* from 0 to below 2^24 (a 16-bit crc shifted left at most 8 times, a      *)
(* code unit shifted left by 8), so no result reaches the sign bit of an   *)
(* int32 and none wraps; TLC's own integers are 32 bits wide and a result  *)
(* outside that range would stop the check with an overflow error.         *)

RECURSIVE Pow2(_)
Pow2(n) == IF n = 0 THEN 1 ELSE 2 * Pow2(n - 1)

\* a << n
Shl(a, n) == a * Pow2(n)

RECURSIVE BitXor(_, _)
\* a ^ b
BitXor(a, b) ==
    IF a = 0 THEN b
    ELSE IF b = 0 THEN a
    ELSE ((a + b) % 2) + 2 * BitXor(a \div 2, b \div 2)

\* a & bit, for a mask of the single bit 2^k
BitAndBit(a, bit) == ((a \div bit) % 2) * bit

\* a & mask, for a mask 2^k - 1 of the k low bits
BitAndLow(a, mask) == a % (mask + 1)

\* Number.prototype.toString(16) of a non-negative integer
HexDigits == <<"0", "1", "2", "3", "4", "5", "6", "7", "8", "9",
               "a", "b", "c", "d", "e", "f">>
RECURSIVE ToString16(_)
ToString16(n) ==
    IF n < 16 THEN <<HexDigits[n + 1]>>
    ELSE ToString16(n \div 16) \o <<HexDigits[(n % 16) + 1]>>

-----------------------------------------------------------------------------
(* calculateCRC16                                                          *)

CrcInit == 65535
CrcPoly == 4129
CrcTopBit == 32768
CrcMask == 65535

\* a variant that shifts before it tests the top bit
CrcBitStepShiftFirst(crc) ==
    IF BitAndBit(Shl(crc, 1), CrcTopBit) # 0
    THEN BitXor(Shl(crc, 1), CrcPoly) ELSE Shl(crc, 1)

\* one pass of the inner loop:
\*   crc = (crc & 0x8000) ? ((crc << 1) ^ 0x1021) : (crc << 1)
CrcBitStep(crc) ==
    IF BitAndBit(crc, CrcTopBit) # 0 THEN BitXor(Shl(crc, 1), CrcPoly) ELSE Shl(crc, 1)

RECURSIVE CrcBits(_, _)
\* the inner loop, for (j = 0; j < 8; j++)
CrcBits(crc, j) == IF j < 8 THEN CrcBits(CrcBitStep(crc), j + 1) ELSE crc

\* a variant that never cuts the crc back to 16 bits
CrcCharStepNoMask(crc, code) == CrcBits(BitXor(crc, Shl(code, 8)), 0)

\* the body of the outer loop for one character code:
\*   crc ^= code << 8; the inner loop; crc &= 0xFFFF
CrcCharStep(crc, code) == BitAndLow(CrcBits(BitXor(crc, Shl(code, 8)), 0), CrcMask)

RECURSIVE CrcLoop(_, _)
\* the outer loop; crcs holds the initial crc and the crc after each character
\* processed so far, so the loop index i is Len(crcs) - 1
CrcLoop(crcs, codes) ==
    IF Len(crcs) > Len(codes) THEN crcs[Len(crcs)]
    ELSE CrcLoop(Append(crcs, CrcCharStep(crcs[Len(crcs)], codes[Len(crcs)])), codes)

\* a variant that forgets padStart
CrcFormatNoPad(crc) == ToUpperCase(ToString16(crc))

\* crc.toString(16).toUpperCase().padStart(4, '0')
CrcFormat(crc) == PadStart(ToUpperCase(ToString16(crc)), 4, "0")

\* calculateCRC16 over the character codes of its argument: the result
\* [ok |-> TRUE, value |-> the 4 characters] or the code of the error thrown
calculateCRC16(codes) ==
    IF Len(codes) = 0
    THEN [ok |-> FALSE, code |-> "CRC_CALCULATION_FAILED"]
    ELSE [ok |-> TRUE, value |-> CrcFormat(CrcLoop(<<CrcInit>>, codes))]

-----------------------------------------------------------------------------
(* Values.                                                                 *)

Undefined == [t |-> "undefined"]
Null == [t |-> "null"]
Str(s) == [t |-> "string", s |-> s]
Bool(b) == [t |-> "boolean", b |-> b]
Number(n) == [t |-> "number", n |-> n]
Obj(o) == [t |-> "object", o |-> o]
\* a string constant of the source, kept as written
Lit(text) == [t |-> "literal", text |-> text]
\* a template literal with a constant head and one interpolated value
Text(head, v) == [t |-> "text", head |-> head, v |-> v]

\* v?.name, and v.name where v is known to be an object
Prop(v, name) ==
    IF v.t = "object" /\ name \in DOMAIN v.o THEN v.o[name] ELSE Undefined

\* numbers: NaN, +Infinity, -Infinity and the finite rationals num/den, den > 0
NaN == [k |-> "nan", num |-> 0, den |-> 1]
PosInf == [k |-> "inf", num |-> 1, den |-> 1]
NegInf == [k |-> "inf", num |-> -1, den |-> 1]
Num(n, d) == [k |-> "fin", num |-> n, den |-> d]

\* !x for a number: true of 0 and of NaN
NotNumber(x) == x.k = "nan" \/ (x.k = "fin" /\ x.num = 0)

\* x <= 0 (false when x is NaN)
LeqZero(x) == (x.k = "fin" /\ x.num <= 0) \/ (x.k = "inf" /\ x.num < 0)

\* the truthiness of a value: !!v
Truthy(v) ==
    CASE v.t = "string" -> Len(v.s) > 0
      [] v.t = "boolean" -> v.b
      [] v.t = "number" -> ~NotNumber(v.n)
      [] v.t = "object" -> TRUE
      [] v.t = "literal" -> v.text # ""
      [] v.t = "text" -> TRUE
      [] OTHER -> FALSE

\* a || b
OrElse(a, b) == IF Truthy(a) THEN a ELSE b

\* Math.floor
MathFloor(x) == IF x.k = "fin" THEN Num(x.num \div x.den, 1) ELSE x

RECURSIVE NatToString(_)
NatToString(n) ==
    IF n < 10 THEN <<Digits[n + 1]>>
    ELSE NatToString(n \div 10) \o <<Digits[(n % 10) + 1]>>

\* Number.prototype.toString of NaN, an infinity, an integer or an odd number
\* of halves, below 2^31 (from 1e21 on JavaScript prints an exponent)
NumberToString(x) ==
    IF x.k = "nan" THEN <<"N", "a", "N">>
    ELSE IF x.k = "inf"
    THEN (IF x.num < 0 THEN <<"-">> ELSE <<>>) \o <<"I", "n", "f", "i", "n", "i", "t", "y">>
    ELSE LET neg == x.num < 0
             mag == IF neg THEN 0 - x.num ELSE x.num
         IN  (IF neg THEN <<"-">> ELSE <<>>)
             \o NatToString(mag \div x.den)
             \o (IF mag % x.den = 0 THEN <<>> ELSE <<".", "5">>)

-----------------------------------------------------------------------------
(* Calls.  A finished call is recorded in last: the method, its argument,  *)
(* how it ended, the HTTP requests it sent and the strings it handed to    *)
(* the QR encoder.                                                         *)

NoError == [class |-> "none", code |-> "none", status |-> 0]
Return(v) == [outcome |-> "return", value |-> v, error |-> NoError]
\* throw new OrderKuotaError(message, code, status); status 0 is undefined
Throw(code, status) ==
    [outcome |-> "throw", value |-> Undefined,
     error |-> [class |-> "OrderKuotaError", code |-> code, status |-> status]]

NoArg == [k |-> "none", num |-> 0, den |-> 1]

\* throw new Error(message): the plain Error of the first client
ThrowError == [outcome |-> "throw", value |-> Undefined,
               error |-> [class |-> "Error", code |-> "none", status |-> 0]]
\* an error of the HTTP library that is not caught
ThrowAxios(status) ==
    [outcome |-> "throw", value |-> Undefined,
     error |-> [class |-> "AxiosError", code |-> "none", status |-> status]]

Call(method, arg, result, requests, encoded) ==
    [method |-> method, arg |-> arg, outcome |-> result.outcome,
     value |-> result.value, error |-> result.error,
     requests |-> requests, encoded |-> encoded]

\* the argument of a constructor call: new OrderKuota(config) of a class
New(class, config) == [class |-> class, config |-> config]

NoCall == Call("none", NoArg, Return(Undefined), <<>>, <<>>)

-----------------------------------------------------------------------------
(* generateQrisString                                                      *)

CountryCode == <<"5", "8", "0", "2", "I", "D">>
StaticTag == <<"0", "1", "0", "2", "1", "1">>
DynamicTag == <<"0", "1", "0", "2", "1", "2">>
AmountTagId == <<"5", "4">>

\* a variant that rewrites nothing
QrisBaseNoFlip(base) == SliceDropLast(base, 4)

\* const qrisBase = this.baseQrString.slice(0, -4).replace("010211", "010212")
QrisBase(base) == Replace(SliceDropLast(base, 4), StaticTag, DynamicTag)

\* a variant that does not pad the length to two digits
NominalTagNoPad(finalAmount) ==
    LET nominalStr == NumberToString(finalAmount)
    IN  AmountTagId \o NatToString(Len(nominalStr)) \o nominalStr

\* const nominalStr = finalAmount.toString();
\* const nominalTag = `54${nominalStr.length.toString().padStart(2, '0')}${nominalStr}`
NominalTag(finalAmount) ==
    LET nominalStr == NumberToString(finalAmount)
    IN  AmountTagId \o PadStart(NatToString(Len(nominalStr)), 2, "0") \o nominalStr

\* a variant that appends the amount tag instead of inserting it
QrisWithNominalAppended(qrisBase, nominalTag, insertPosition) == qrisBase \o nominalTag

\* qrisBase.slice(0, insertPosition) + nominalTag + qrisBase.slice(insertPosition)
QrisWithNominal(qrisBase, nominalTag, insertPosition) ==
    Slice(qrisBase, 0, insertPosition) \o nominalTag \o SliceFrom(qrisBase, insertPosition)

\* a variant that checks the base string before the amount
generateQrisStringBaseFirst(base, amount) ==
    IF ~Truthy(base) THEN Throw("MISSING_BASE_QR_STRING", 0)
    ELSE IF ~Includes(base.s, CountryCode) THEN Throw("INVALID_QRIS_FORMAT", 0)
    ELSE IF NotNumber(amount) \/ LeqZero(amount) THEN Throw("INVALID_AMOUNT", 0)
    ELSE Return(Str(base.s))

\* the result of generateQrisString(amount) on a client whose baseQrString is
\* base.  The catch clause rethrows every OrderKuotaError unchanged; nothing
\* else is thrown inside the try block for a number and an optional string.
generateQrisString(base, amount) ==
    IF NotNumber(amount) \/ LeqZero(amount) THEN Throw("INVALID_AMOUNT", 0)
    ELSE IF ~Truthy(base) THEN Throw("MISSING_BASE_QR_STRING", 0)
    ELSE IF ~Includes(base.s, CountryCode) THEN Throw("INVALID_QRIS_FORMAT", 0)
    ELSE LET finalAmount == MathFloor(amount)
             qrisBase == QrisBase(base.s)
             nominalTag == NominalTag(finalAmount)
             insertPosition == IndexOf(qrisBase, CountryCode)
         IN  IF insertPosition = -1 THEN Throw("INVALID_QRIS_FORMAT", 0)
             ELSE LET qrisWithNominal ==
                          QrisWithNominal(qrisBase, nominalTag, insertPosition)
                      checksum == calculateCRC16(Codes(qrisWithNominal))
                  IN  IF ~checksum.ok THEN Throw(checksum.code, 0)
                      ELSE Return(Str(qrisWithNominal \o checksum.value))

\* a variant that only asks whether a base string is configured
isQrisGenerationAvailableAnyBase(base) == Truthy(base)

\* return !!(this.baseQrString && this.baseQrString.includes("5802ID"))
isQrisGenerationAvailable(base) == Truthy(base) /\ Includes(base.s, CountryCode)

-----------------------------------------------------------------------------
(* The operations of the keyed client that build QRIS strings.             *)

\* variant: the generated string is kept in the baseQrString field
GenerateQrisStringCaching(amount) ==
    /\ cls = "keyed"
    /\ LET result == generateQrisString(baseQrString, amount)
       IN  /\ last' = Call("generateQrisString", amount, result, <<>>, <<>>)
           /\ baseQrString' = IF result.outcome = "return" THEN result.value
                               ELSE baseQrString
    /\ UNCHANGED <<cls, username, password, userid, apikey, pin, token, crcIn, crcOut>>

GenerateQrisString(amount) ==
    /\ cls = "keyed"
    /\ last' = Call("generateQrisString", amount,
                    generateQrisString(baseQrString, amount), <<>>, <<>>)
    /\ UNCHANGED <<fields, crcIn, crcOut>>

IsQrisGenerationAvailable ==
    /\ cls = "keyed"
    /\ last' = Call("isQrisGenerationAvailable", NoArg,
                    Return(Bool(isQrisGenerationAvailable(baseQrString))), <<>>, <<>>)
    /\ UNCHANGED <<fields, crcIn, crcOut>>

-----------------------------------------------------------------------------
(* Text of a balance answer.                                               *)

\* String.prototype.toLowerCase
ToLowerCase(str) ==
    [i \in 1..Len(str) |->
        IF str[i] \in Range(Upper) THEN Lower[IndexIn(Upper, str[i])] ELSE str[i]]

IsSpace(c) == c = " "

RECURSIVE TrimStart(_)
TrimStart(str) ==
    IF Len(str) > 0 /\ IsSpace(str[1]) THEN TrimStart(Tail(str)) ELSE str
RECURSIVE TrimEnd(_)
TrimEnd(str) ==
    IF Len(str) > 0 /\ IsSpace(str[Len(str)])
    THEN TrimEnd(SubSeq(str, 1, Len(str) - 1)) ELSE str
\* String.prototype.trim
Trim(str) == TrimEnd(TrimStart(str))

ErrorIndicators ==
    { <<"e", "r", "r", "o", "r">>,
      <<"f", "a", "i", "l", "e", "d">>,
      <<"i", "n", "v", "a", "l", "i", "d">>,
      <<"u", "n", "a", "u", "t", "h", "o", "r", "i", "z", "e", "d">>,
      <<"a", "c", "c", "e", "s", "s", " ", "d", "e", "n", "i", "e", "d">> }

\* balanceText.toLowerCase().includes('error') || ... || includes('access denied')
HasErrorIndicator(balanceText) ==
    \E word \in ErrorIndicators : Includes(ToLowerCase(balanceText), word)

\* the characters of the class [\d.,]
IsAmountChar(c) == c \in Range(Digits) \/ c = "." \/ c = ","

RECURSIVE SkipSpaces(_, _)
\* \s* from position i on: the position after the white space
SkipSpaces(str, i) ==
    IF i < Len(str) /\ IsSpace(str[i + 1]) THEN SkipSpaces(str, i + 1) ELSE i

\* (?:word\s*)? from position i on, case-insensitive: the position after it
SkipWord(str, word, i) ==
    IF StartsAt(ToLowerCase(str), word, i) THEN SkipSpaces(str, i + Len(word)) ELSE i

\* where the group ([\d.,]+) would start for a match attempted at position i
CaptureStart(str, i) ==
    SkipWord(str, <<"r", "p">>, SkipWord(str, <<"s", "a", "l", "d", "o">>, i))

RECURSIVE AmountRun(_, _)
\* [\d.,]+ from position i on: the position after the run
AmountRun(str, i) ==
    IF i < Len(str) /\ IsAmountChar(str[i + 1]) THEN AmountRun(str, i + 1) ELSE i

\* balanceText.match(/(?:saldo\s*)?(?:rp\s*)?([\d.,]+)/i): group 1 of the
\* leftmost match, or Null
BalanceMatch(str) ==
    LET hits == { i \in 0..Len(str) :
                    CaptureStart(str, i) < AmountRun(str, CaptureStart(str, i)) }
    IN  IF hits = {} THEN Null
        ELSE LET i == CHOOSE h \in hits : \A g \in hits : h <= g
                 from == CaptureStart(str, i)
             IN  Str(Slice(str, from, AmountRun(str, from)))

\* .replace(/\./g, '').replace(/,/g, '.')
BalanceStr(group) ==
    LET noDots == SelectSeq(group, LAMBDA c : c # ".")
    IN  [i \in 1..Len(noDots) |-> IF noDots[i] = "," THEN "." ELSE noDots[i]]

RECURSIVE DigitRun(_, _)
DigitRun(str, i) ==
    IF i < Len(str) /\ str[i + 1] \in Range(Digits) THEN DigitRun(str, i + 1) ELSE i

RECURSIVE DigitsValue(_)
DigitsValue(str) ==
    IF Len(str) = 0 THEN 0
    ELSE (10 * DigitsValue(SubSeq(str, 1, Len(str) - 1))) + (CharCode(str[Len(str)]) - 48)

RECURSIVE Pow10(_)
Pow10(n) == IF n = 0 THEN 1 ELSE 10 * Pow10(n - 1)

\* parseFloat of a string of digits and dots: the longest prefix that reads
\* as digits, an optional dot and digits; NaN when that prefix has no digit
ParseFloat(str) ==
    LET intEnd == DigitRun(str, 0)
        hasDot == intEnd < Len(str) /\ str[intEnd + 1] = "."
        fracEnd == IF hasDot THEN DigitRun(str, intEnd + 1) ELSE intEnd
        frac == IF hasDot THEN Slice(str, intEnd + 1, fracEnd) ELSE <<>>
    IN  IF intEnd = 0 /\ Len(frac) = 0 THEN NaN
        ELSE Num((DigitsValue(Slice(str, 0, intEnd)) * Pow10(Len(frac))) + DigitsValue(frac),
                 Pow10(Len(frac)))

\* the balance read from the text: parseFloat(balanceStr) || 0, and 0 without a match
ParseBalance(balanceText) ==
    LET balanceMatch == BalanceMatch(balanceText)
    IN  IF balanceMatch = Null THEN Num(0, 1)
        ELSE LET parsed == ParseFloat(BalanceStr(balanceMatch.s))
             IN  IF NotNumber(parsed) THEN Num(0, 1) ELSE parsed

-----------------------------------------------------------------------------
(* The HTTP layer.  A request ends with a response (kind "ok"), with an    *)
(* AxiosError (kind "axios": status is that of the response, 0 when there  *)
(* was none) or with another exception (kind "thrown").                    *)

\* a request and its outcome
Sent(request, http) == [request |-> request, http |-> http]
Get(url) == [verb |-> "GET", url |-> url, body |-> Undefined]
Post(url, body) == [verb |-> "POST", url |-> url, body |-> body]

BalanceUrl ==
    << Lit("https://h2h.okeconnect.com/trx/balance?memberID="), userid,
       Lit("&pin="), pin, Lit("&password="), password >>
MutasiUrl(kind) ==
    << Lit("https://gateway.okeconnect.com/api/mutasi/"), Lit(kind), Lit("/"),
       userid, Lit("/"), apikey >>

-----------------------------------------------------------------------------
(* The keyed client, src/src/OrderKuota.ts.                                *)

\* a variant that does not look at the pin
KeyedConfigCompleteNoPin(config) ==
    /\ Truthy(config.username) /\ Truthy(config.password) /\ Truthy(config.userid)
    /\ Truthy(config.apikey)

KeyedConfigComplete(config) ==
    /\ Truthy(config.username) /\ Truthy(config.password) /\ Truthy(config.userid)
    /\ Truthy(config.apikey) /\ Truthy(config.pin)

\* the OrderKuotaErrorCode of type-aliases/OrderKuotaErrorCode.md
KeyedCodes ==
    {"MISSING_CONFIG", "BALANCE_CHECK_FAILED", "API_ERROR", "EMPTY_RESPONSE",
     "INVALID_RESPONSE", "NETWORK_ERROR", "QRIS_FETCH_FAILED", "VA_FETCH_FAILED",
     "RETAIL_FETCH_FAILED", "QRIS_GENERATION_FAILED", "INVALID_AMOUNT",
     "INVALID_QRIS_FORMAT", "MISSING_BASE_QR_STRING", "CRC_CALCULATION_FAILED",
     "INVALID_QRIS_STRING", "QR_GENERATION_FAILED", "UNKNOWN_ERROR"}

\* constructor(config)
NewKeyed(config) ==
    /\ cls = "none"
    /\ IF ~KeyedConfigComplete(config)
       THEN /\ last' = Call("constructor", New("keyed", config), Throw("MISSING_CONFIG", 0), <<>>, <<>>)
            /\ UNCHANGED fields
       ELSE /\ cls' = "keyed"
            /\ username' = config.username
            /\ pin' = config.pin
            /\ userid' = config.userid
            /\ apikey' = config.apikey
            /\ password' = config.password
            /\ baseQrString' = config.baseQrString
            /\ token' = token
            /\ last' = Call("constructor", New("keyed", config), Return(Undefined), <<>>, <<>>)
    /\ UNCHANGED <<crcIn, crcOut>>

\* the result of checkBalance() for the outcome of its request
keyedCheckBalance(http) ==
    IF http.kind = "ok"
    THEN IF http.data.t = "string"
         THEN LET balanceText == Trim(http.data.s)
              IN  IF Len(balanceText) = 0 THEN Throw("EMPTY_RESPONSE", 0)
                  ELSE IF HasErrorIndicator(balanceText) THEN Throw("API_ERROR", 0)
                  ELSE Return(Obj([status |-> Bool(TRUE),
                                   message |-> Str(balanceText),
                                   balance |-> Number(ParseBalance(balanceText))]))
         ELSE IF Truthy(http.data) /\ http.data.t = "object"
         THEN IF ~Truthy(Prop(http.data, "status")) THEN Throw("BALANCE_CHECK_FAILED", 0)
              ELSE Return(Obj([status |-> Prop(http.data, "status"),
                               message |-> OrElse(Prop(http.data, "message"), Lit("Success")),
                               balance |-> OrElse(Prop(http.data, "balance"),
                                                  Number(Num(0, 1)))]))
         ELSE Throw("INVALID_RESPONSE", 0)
    ELSE IF http.kind = "axios" THEN Throw("NETWORK_ERROR", http.status)
    ELSE Throw("UNKNOWN_ERROR", 0)

KeyedCheckBalance(http) ==
    /\ cls = "keyed"
    /\ last' = Call("checkBalance", NoArg, keyedCheckBalance(http), <<Sent(Get(BalanceUrl), http)>>, <<>>)
    /\ UNCHANGED <<fields, crcIn, crcOut>>

\* a variant that returns the failure instead of throwing it
fetchHistorySwallow(http, code) ==
    IF http.kind = "ok" THEN Return(http.data)
    ELSE Return(Obj([success |-> Bool(FALSE)]))

\* a variant without the catch block
fetchHistoryUncaught(http, code) ==
    IF http.kind = "ok" THEN Return(http.data)
    ELSE IF http.kind = "axios" THEN ThrowAxios(http.status)
    ELSE ThrowError

\* the result of fetchQrisHistory, fetchVirtualAccountHistory and
\* fetchRetailHistory, which differ in the URL and in the error code
fetchHistory(http, code) ==
    IF http.kind = "ok" THEN Return(http.data)
    ELSE IF http.kind = "axios" THEN Throw(code, http.status)
    ELSE Throw("UNKNOWN_ERROR", 0)

FetchQrisHistory(http) ==
    /\ cls = "keyed"
    /\ last' = Call("fetchQrisHistory", NoArg, fetchHistory(http, "QRIS_FETCH_FAILED"),
                    <<Sent(Get(MutasiUrl("qris")), http)>>, <<>>)
    /\ UNCHANGED <<fields, crcIn, crcOut>>

\* a variant that reports the code of the QRIS operation
FetchVirtualAccountHistoryQrisCode(http) ==
    /\ cls = "keyed"
    /\ last' = Call("fetchVirtualAccountHistory", NoArg, fetchHistory(http, "QRIS_FETCH_FAILED"),
                    <<Sent(Get(MutasiUrl("va")), http)>>, <<>>)
    /\ UNCHANGED <<fields, crcIn, crcOut>>

FetchVirtualAccountHistory(http) ==
    /\ cls = "keyed"
    /\ last' = Call("fetchVirtualAccountHistory", NoArg, fetchHistory(http, "VA_FETCH_FAILED"),
                    <<Sent(Get(MutasiUrl("va")), http)>>, <<>>)
    /\ UNCHANGED <<fields, crcIn, crcOut>>

FetchRetailHistory(http) ==
    /\ cls = "keyed"
    /\ last' = Call("fetchRetailHistory", NoArg, fetchHistory(http, "RETAIL_FETCH_FAILED"),
                    <<Sent(Get(MutasiUrl("retail")), http)>>, <<>>)
    /\ UNCHANGED <<fields, crcIn, crcOut>>

DefaultWidth == 512
DefaultMargin == 4
Black == Lit("#000000")
White == Lit("#FFFFFF")

\* the options generateQrisImage hands to the encoder; options.dark and
\* options.light stand for options.color?.dark and options.color?.light
QrOptions(options) ==
    [width |-> OrElse(options.width, Number(Num(DefaultWidth, 1))),
     margin |-> OrElse(options.margin, Number(Num(DefaultMargin, 1))),
     dark |-> OrElse(options.dark, Black),
     light |-> OrElse(options.light, White),
     type |-> "image/png"]

\* qrImageDataUrl.split(',')[1]
SplitSecond(str) ==
    LET first == IndexOf(str, <<",">>)
    IN  IF first = -1 THEN Undefined
        ELSE LET rest == SliceFrom(str, first + 1)
                 second == IndexOf(rest, <<",">>)
             IN  Str(IF second = -1 THEN rest ELSE Slice(rest, 0, second))

\* whether generateQrisImage reaches the encoder
ImageInputValid(qrisString) == Truthy(qrisString) /\ Len(Trim(qrisString.s)) > 0

\* the result of generateQrisImage(qrisString, options) for the outcome enc
\* of QRCode.toDataURL, which is called only for a valid input
generateQrisImage(qrisString, enc) ==
    IF ~ImageInputValid(qrisString) THEN Throw("INVALID_QRIS_STRING", 0)
    ELSE IF enc.kind = "thrown" THEN Throw("QR_GENERATION_FAILED", 0)
    ELSE LET base64Data == SplitSecond(enc.url)
         IN  IF ~Truthy(base64Data) THEN Throw("QR_GENERATION_FAILED", 0)
             ELSE Return(base64Data)

\* the calls of QRCode.toDataURL made by generateQrisImage, with their outcome
Encoded(qrisString, options, enc) ==
    IF ImageInputValid(qrisString)
    THEN <<[text |-> qrisString.s, options |-> QrOptions(options), enc |-> enc]>>
    ELSE <<>>

GenerateQrisImage(qrisString, options, enc) ==
    /\ cls = "keyed"
    /\ last' = Call("generateQrisImage", [qrisString |-> qrisString, options |-> options],
                    generateQrisImage(qrisString, enc), <<>>, Encoded(qrisString, options, enc))
    /\ UNCHANGED <<fields, crcIn, crcOut>>

\* variant: every failure of either step is wrapped as QR_GENERATION_FAILED
GenerateQrisQrCodeRewrap(amount, options, enc) ==
    /\ cls = "keyed"
    /\ LET qris == generateQrisString(baseQrString, amount)
           image == generateQrisImage(qris.value, enc)
       IN  last' = IF qris.outcome = "throw"
                   THEN Call("generateQrisQrCode", [amount |-> amount, options |-> options],
                             Throw("QR_GENERATION_FAILED", 0), <<>>, <<>>)
                   ELSE Call("generateQrisQrCode", [amount |-> amount, options |-> options],
                             IF image.outcome = "throw"
                             THEN Throw("QR_GENERATION_FAILED", 0) ELSE image,
                             <<>>, Encoded(qris.value, options, enc))
    /\ UNCHANGED <<fields, crcIn, crcOut>>

\* generateQrisQrCode(amount, options): generateQrisString, then generateQrisImage
GenerateQrisQrCode(amount, options, enc) ==
    /\ cls = "keyed"
    /\ LET qris == generateQrisString(baseQrString, amount)
       IN  last' = IF qris.outcome = "throw"
                   THEN Call("generateQrisQrCode", [amount |-> amount, options |-> options],
                             qris, <<>>, <<>>)
                   ELSE Call("generateQrisQrCode", [amount |-> amount, options |-> options],
                             generateQrisImage(qris.value, enc), <<>>,
                             Encoded(qris.value, options, enc))
    /\ UNCHANGED <<fields, crcIn, crcOut>>

\* variant: the pin is part of the returned configuration
KeyedGetConfigWithPin ==
    /\ cls = "keyed"
    /\ last' = Call("getConfig", NoArg,
                    Return(Obj([username |-> username, userid |-> userid, pin |-> pin])),
                    <<>>, <<>>)
    /\ UNCHANGED <<fields, crcIn, crcOut>>

KeyedGetConfig ==
    /\ cls = "keyed"
    /\ last' = Call("getConfig", NoArg,
                    Return(Obj([username |-> username, userid |-> userid])), <<>>, <<>>)
    /\ UNCHANGED <<fields, crcIn, crcOut>>

KeyedIsConfigValid ==
    /\ cls = "keyed"
    /\ last' = Call("isConfigValid", NoArg,
                    Return(Bool(/\ Truthy(username) /\ Truthy(pin) /\ Truthy(userid)
                                /\ Truthy(apikey) /\ Truthy(password))), <<>>, <<>>)
    /\ UNCHANGED <<fields, crcIn, crcOut>>

AvailableMethods ==
    {"checkBalance", "fetchQrisHistory", "fetchVirtualAccountHistory",
     "fetchRetailHistory", "generateQrisString", "generateQrisImage",
     "generateQrisQrCode", "getConfig", "isConfigValid",
     "isQrisGenerationAvailable", "getAvailableMethods"}

\* getAvailableMethods(): an object with one description for each method name
GetAvailableMethods ==
    /\ cls = "keyed"
    /\ last' = Call("getAvailableMethods", NoArg,
                    Return(Obj([keys |-> AvailableMethods])), <<>>, <<>>)
    /\ UNCHANGED <<fields, crcIn, crcOut>>

\* variant: the balance entry has pin and password exchanged
GetEndpointsSwapped ==
    /\ cls = "keyed"
    /\ last' = Call("getEndpoints", NoArg,
                    Return(Obj([balance |->
                                    << Lit("https://h2h.okeconnect.com/trx/balance?memberID="),
                                       userid, Lit("&pin="), password,
                                       Lit("&password="), pin >>,
                                qrisHistory |-> MutasiUrl("qris"),
                                vaHistory |-> MutasiUrl("va"),
                                retailHistory |-> MutasiUrl("retail")])), <<>>, <<>>)
    /\ UNCHANGED <<fields, crcIn, crcOut>>

GetEndpoints ==
    /\ cls = "keyed"
    /\ last' = Call("getEndpoints", NoArg,
                    Return(Obj([balance |-> BalanceUrl,
                                qrisHistory |-> MutasiUrl("qris"),
                                vaHistory |-> MutasiUrl("va"),
                                retailHistory |-> MutasiUrl("retail")])), <<>>, <<>>)
    /\ UNCHANGED <<fields, crcIn, crcOut>>

-----------------------------------------------------------------------------
(* The token client, src/unnamed/part_006 lines 1-556.                     *)

LoginEndpoint == <<Lit("https://app.orderkuota.com/api/v2/login")>>
GetEndpoint == <<Lit("https://app.orderkuota.com/api/v2/get")>>

\* this.token.split(" ")[0]
TokenId(tok) ==
    LET space == IndexOf(tok, <<" ">>)
    IN  Str(IF space = -1 THEN tok ELSE Slice(tok, 0, space))

\* the OrderKuotaErrorCode of types.ts
TokenCodes ==
    {"MISSING_CONFIG", "API_ERROR", "EMPTY_RESPONSE", "INVALID_RESPONSE", "NETWORK_ERROR",
     "INVALID_AMOUNT", "INVALID_CREDENTIALS", "QR_GENERATION_FAILED", "UNKNOWN_ERROR"}

\* a variant of the constructor that does not ask for the password
NewTokenLax(config) ==
    /\ cls = "none"
    /\ IF ~Truthy(config.username)
       THEN /\ last' = Call("constructor", New("token", config), Throw("MISSING_CONFIG", 0), <<>>, <<>>)
            /\ UNCHANGED fields
       ELSE /\ cls' = "token"
            /\ username' = config.username
            /\ password' = config.password
            /\ token' = config.token
            /\ baseQrString' = config.baseQrString
            /\ UNCHANGED <<userid, apikey, pin>>
            /\ last' = Call("constructor", New("token", config), Return(Undefined), <<>>, <<>>)
    /\ UNCHANGED <<crcIn, crcOut>>

\* constructor(config)
NewToken(config) ==
    /\ cls = "none"
    /\ IF ~Truthy(config.username) \/ ~Truthy(config.password)
       THEN /\ last' = Call("constructor", New("token", config), Throw("MISSING_CONFIG", 0), <<>>, <<>>)
            /\ UNCHANGED fields
       ELSE /\ cls' = "token"
            /\ username' = config.username
            /\ password' = config.password
            /\ token' = config.token
            /\ baseQrString' = config.baseQrString
            /\ UNCHANGED <<userid, apikey, pin>>
            /\ last' = Call("constructor", New("token", config), Return(Undefined), <<>>, <<>>)
    /\ UNCHANGED <<crcIn, crcOut>>

\* a variant that throws the failure of the request, as the keyed client does
FailureThrown(http, what) ==
    IF http.kind = "axios" THEN Throw("NETWORK_ERROR", http.status)
    ELSE Throw("UNKNOWN_ERROR", 0)

\* what the catch blocks of the request methods do with a failed request
Failure(http, what) ==
    IF http.kind = "axios"
    THEN Return(Obj([success |-> Bool(FALSE),
                     message |-> Text("Network error: ", Lit(http.message))]))
    ELSE Return(Obj([success |-> Bool(FALSE),
                     message |-> Text(what, Lit(http.message))]))

\* the result of getOTP() for the outcome of its request
getOTP(http) ==
    IF http.kind = "ok"
    THEN LET data == http.data
             email == Prop(Prop(data, "results"), "otp_value")
         IN  IF Prop(data, "success") = Bool(FALSE) THEN Return(data)
             ELSE IF ~Truthy(email)
             THEN Return(Obj([success |-> Bool(FALSE),
                              message |-> Lit("Failed to get OTP email from response")]))
             ELSE Return(Obj([status |-> Lit("success"), email |-> email,
                              message |-> Text("OTP has been sent to ", email)]))
    ELSE Failure(http, "Unexpected error during OTP request: ")

GetOTP(http) ==
    /\ cls = "token"
    /\ last' = Call("getOTP", NoArg, getOTP(http),
                    <<Sent(Post(LoginEndpoint, [username |-> username, password |-> password]),
                           http)>>, <<>>)
    /\ UNCHANGED <<fields, crcIn, crcOut>>

\* a variant that never stores the token
TokenObtainedNever(otp, http) == FALSE

\* whether getToken(otp) reads a token from the answer
TokenObtained(otp, http) ==
    /\ Truthy(otp)
    /\ http.kind = "ok"
    /\ Prop(http.data, "success") # Bool(FALSE)
    /\ Truthy(Prop(Prop(http.data, "results"), "token"))

\* the result of getToken(otp) for the outcome of its request
getToken(otp, http) ==
    IF ~Truthy(otp) THEN Throw("INVALID_CREDENTIALS", 0)
    ELSE IF http.kind = "ok"
    THEN LET data == http.data
             results == Prop(data, "results")
         IN  IF Prop(data, "success") = Bool(FALSE) THEN Return(data)
             ELSE IF ~Truthy(Prop(results, "token"))
             THEN Return(Obj([success |-> Bool(FALSE),
                              message |-> Lit("Token not found in response.")]))
             ELSE Return(Obj([status |-> Lit("success"),
                              token |-> Prop(results, "token"),
                              id |-> Prop(results, "id"),
                              name |-> Prop(results, "name"),
                              username |-> Prop(results, "username"),
                              balance |-> Prop(results, "balance"),
                              message |-> Lit("Token successfully obtained.")]))
    ELSE Failure(http, "Unexpected error during token request: ")

\* variant: a login that yields no token forgets the stored one
GetTokenForgetting(otp, http) ==
    /\ cls = "token"
    /\ token' = IF TokenObtained(otp, http)
                THEN Prop(Prop(http.data, "results"), "token") ELSE Undefined
    /\ last' = Call("getToken", otp, getToken(otp, http),
                    IF Truthy(otp)
                    THEN <<Sent(Post(LoginEndpoint, [username |-> username, password |-> otp]),
                                http)>>
                    ELSE <<>>, <<>>)
    /\ UNCHANGED <<cls, username, password, userid, apikey, pin, baseQrString, crcIn, crcOut>>

GetToken(otp, http) ==
    /\ cls = "token"
    /\ token' = IF TokenObtained(otp, http)
                THEN Prop(Prop(http.data, "results"), "token") ELSE token
    /\ last' = Call("getToken", otp, getToken(otp, http),
                    IF Truthy(otp)
                    THEN <<Sent(Post(LoginEndpoint, [username |-> username, password |-> otp]),
                                http)>>
                    ELSE <<>>, <<>>)
    /\ UNCHANGED <<cls, username, password, userid, apikey, pin, baseQrString, crcIn, crcOut>>

\* the form of getQRISHistory; an absent option is sent as "" and page as "1"
HistoryPayload(historyType, options, now) ==
    [auth_username |-> username, auth_token |-> token, request_time |-> now,
     historyType |-> historyType,
     keterangan |-> OrElse(options.keterangan, Str(<<>>)),
     jumlah |-> OrElse(options.jumlah, Str(<<>>)),
     page |-> OrElse(options.page, Str(<<"1">>)),
     dari_tanggal |-> OrElse(options.dari_tanggal, Str(<<>>)),
     ke_tanggal |-> OrElse(options.ke_tanggal, Str(<<>>))]

\* a variant that sends the request without looking at the token
tokenFetchUnchecked(http, what) ==
    IF http.kind = "ok" THEN Return(http.data) ELSE Failure(http, what)

\* the result of getQRISHistory and of fetchQrisMenu, which return response.data
tokenFetch(http, what) ==
    IF ~Truthy(token) THEN Throw("INVALID_CREDENTIALS", 0)
    ELSE IF http.kind = "ok" THEN Return(http.data)
    ELSE Failure(http, what)

GetQRISHistory(historyType, options, now, http) ==
    /\ cls = "token"
    /\ last' = Call("getQRISHistory", [historyType |-> historyType, options |-> options],
                    tokenFetch(http, "Unexpected error during QRIS history request: "),
                    IF Truthy(token)
                    THEN <<Sent(Post(<<Lit("https://app.orderkuota.com/api/v2/qris/mutasi/"),
                                       TokenId(token.s)>>,
                                     HistoryPayload(historyType, options, now)), http)>>
                    ELSE <<>>, <<>>)
    /\ UNCHANGED <<fields, crcIn, crcOut>>

MenuRequest(now, http) ==
    Sent(Post(<<Lit("https://app.orderkuota.com/api/v2/qris/menu/"), TokenId(token.s)>>,
              [auth_username |-> username, auth_token |-> token, request_time |-> now]),
         http)

fetchQrisMenu(http) == tokenFetch(http, "Unexpected error during QRIS menu request: ")

FetchQrisMenu(now, http) ==
    /\ cls = "token"
    /\ last' = Call("fetchQrisMenu", NoArg, fetchQrisMenu(http),
                    IF Truthy(token) THEN <<MenuRequest(now, http)>> ELSE <<>>, <<>>)
    /\ UNCHANGED <<fields, crcIn, crcOut>>

DefaultAjaibAmount == 1000

\* the parameter amount: number = 1000
AjaibAmount(amount) ==
    IF amount = Undefined THEN Num(DefaultAjaibAmount, 1) ELSE amount.n

\* the result of generateQRISAjaib(amount) for the outcome of its request
generateQRISAjaib(amount, http) ==
    IF ~Truthy(token) THEN Throw("INVALID_CREDENTIALS", 0)
    ELSE IF LeqZero(AjaibAmount(amount)) THEN Throw("INVALID_AMOUNT", 0)
    ELSE IF http.kind = "ok" THEN Return(http.data)
    ELSE Failure(http, "Unexpected error during QRIS Ajaib generation: ")

GenerateQRISAjaib(amount, now, http) ==
    /\ cls = "token"
    /\ last' = Call("generateQRISAjaib", amount, generateQRISAjaib(amount, http),
                    IF Truthy(token) /\ ~LeqZero(AjaibAmount(amount))
                    THEN <<Sent(Post(GetEndpoint,
                                     [auth_username |-> username, auth_token |-> token,
                                      request_time |-> now,
                                      amount |-> NumberToString(AjaibAmount(amount))]),
                                http)>>
                    ELSE <<>>, <<>>)
    /\ UNCHANGED <<fields, crcIn, crcOut>>

FailedToCheck == Lit("Failed to check balance")

\* a variant that throws without a token, as the other methods do
tokenCheckBalanceStrict(http) ==
    IF ~Truthy(token) THEN Throw("INVALID_CREDENTIALS", 0)
    ELSE LET menuResponse == fetchQrisMenu(http).value
             account == Prop(menuResponse, "account")
             accountData == Prop(account, "results")
         IN  IF Prop(menuResponse, "success") = Bool(FALSE)
                \/ Prop(account, "success") # Bool(TRUE)
                \/ ~Truthy(accountData)
             THEN Return(Obj([success |-> Bool(FALSE), message |-> FailedToCheck]))
             ELSE Return(Obj([success |-> Bool(TRUE),
                              balance |-> OrElse(Prop(accountData, "balance"),
                                                 Number(Num(0, 1))),
                              qris_balance |-> OrElse(Prop(accountData, "qris_balance"),
                                                      Number(Num(0, 1)))]))

\* the result of checkBalance(), which calls fetchQrisMenu() when there is a token
tokenCheckBalance(http) ==
    IF ~Truthy(token)
    THEN Return(Obj([success |-> Bool(FALSE),
                     message |-> Lit("Token is required. Please call getToken() first.")]))
    ELSE LET menuResponse == fetchQrisMenu(http).value
             account == Prop(menuResponse, "account")
             accountData == Prop(account, "results")
         IN  IF Prop(menuResponse, "success") = Bool(FALSE)
             THEN Return(Obj([success |-> Bool(FALSE),
                              message |-> OrElse(Prop(menuResponse, "message"), FailedToCheck)]))
             ELSE IF Prop(account, "success") # Bool(TRUE)
             THEN Return(Obj([success |-> Bool(FALSE),
                              message |-> OrElse(Prop(account, "message"), FailedToCheck)]))
             ELSE IF ~Truthy(accountData)
             THEN Return(Obj([success |-> Bool(FALSE),
                              message |-> Lit("Account data not found in response")]))
             ELSE Return(Obj([success |-> Bool(TRUE),
                              balance |-> OrElse(Prop(accountData, "balance"),
                                                 Number(Num(0, 1))),
                              qris_balance |-> OrElse(Prop(accountData, "qris_balance"),
                                                      Number(Num(0, 1)))]))

\* a variant that asks for the menu twice
TokenCheckBalanceTwice(now, http) ==
    /\ cls = "token"
    /\ last' = Call("checkBalance", NoArg, tokenCheckBalance(http),
                    IF Truthy(token) THEN <<MenuRequest(now, http), MenuRequest(now, http)>>
                    ELSE <<>>, <<>>)
    /\ UNCHANGED <<fields, crcIn, crcOut>>

TokenCheckBalance(now, http) ==
    /\ cls = "token"
    /\ last' = Call("checkBalance", NoArg, tokenCheckBalance(http),
                    IF Truthy(token) THEN <<MenuRequest(now, http)>> ELSE <<>>, <<>>)
    /\ UNCHANGED <<fields, crcIn, crcOut>>

TokenDefaultWidth == 256
TokenDefaultMargin == 1

\* { type, margin, color, width, ...options }: an option that is present
\* replaces the default, and options.color replaces both colours
DefaultOptions(options) ==
    [width |-> IF options.width = Undefined THEN Number(Num(TokenDefaultWidth, 1))
               ELSE options.width,
     margin |-> IF options.margin = Undefined THEN Number(Num(TokenDefaultMargin, 1))
                ELSE options.margin,
     dark |-> IF options.dark = Undefined /\ options.light = Undefined THEN Black
              ELSE options.dark,
     light |-> IF options.dark = Undefined /\ options.light = Undefined THEN White
               ELSE options.light,
     type |-> "image/png"]

\* the result of generateQRImage(qrisString, options) for the outcome enc of
\* QRCode.toDataURL; the catch block rewraps every error, its own included
generateQRImage(qrisString, enc) ==
    IF ~Truthy(qrisString) THEN Throw("QR_GENERATION_FAILED", 0)
    ELSE IF enc.kind = "thrown" THEN Throw("QR_GENERATION_FAILED", 0)
    ELSE Return(Str(enc.url))

GenerateQRImage(qrisString, options, enc) ==
    /\ cls = "token"
    /\ last' = Call("generateQRImage", [qrisString |-> qrisString, options |-> options],
                    generateQRImage(qrisString, enc), <<>>,
                    IF Truthy(qrisString)
                    THEN <<[text |-> qrisString.s, options |-> DefaultOptions(options),
                            enc |-> enc]>>
                    ELSE <<>>)
    /\ UNCHANGED <<fields, crcIn, crcOut>>

SetToken(tok) ==
    /\ cls = "token"
    /\ token' = tok
    /\ last' = Call("setToken", tok, Return(Undefined), <<>>, <<>>)
    /\ UNCHANGED <<cls, username, password, userid, apikey, pin, baseQrString, crcIn, crcOut>>

GetTokenValue ==
    /\ cls = "token"
    /\ last' = Call("getTokenValue", NoArg, Return(token), <<>>, <<>>)
    /\ UNCHANGED <<fields, crcIn, crcOut>>

TokenGetConfig ==
    /\ cls = "token"
    /\ last' = Call("getConfig", NoArg,
                    Return(Obj([username |-> username, token |-> token,
                                baseQrString |-> baseQrString])), <<>>, <<>>)
    /\ UNCHANGED <<fields, crcIn, crcOut>>

TokenIsConfigValid ==
    /\ cls = "token"
    /\ last' = Call("isConfigValid", NoArg,
                    Return(Bool(Truthy(username) /\ Truthy(password))), <<>>, <<>>)
    /\ UNCHANGED <<fields, crcIn, crcOut>>

HasToken ==
    /\ cls = "token"
    /\ last' = Call("hasToken", NoArg, Return(Bool(Truthy(token))), <<>>, <<>>)
    /\ UNCHANGED <<fields, crcIn, crcOut>>

-----------------------------------------------------------------------------
(* The first client, src/unnamed/part_006 lines 558-642: no typed errors.  *)

\* constructor(options = {})
NewLegacy(options) ==
    /\ cls = "none"
    /\ cls' = "legacy"
    /\ username' = OrElse(options.username, Null)
    /\ pin' = OrElse(options.pin, Null)
    /\ userid' = OrElse(options.userid, Null)
    /\ apikey' = OrElse(options.apikey, Null)
    /\ password' = OrElse(options.password, Null)
    /\ UNCHANGED <<baseQrString, token, crcIn, crcOut>>
    /\ last' = Call("constructor", New("legacy", options), Return(Undefined), <<>>, <<>>)

\* const response = await axios.get(url); return response.data; nothing is caught
legacyFetch(authenticated, http) ==
    IF ~authenticated THEN ThrowError
    ELSE IF http.kind = "ok" THEN Return(http.data)
    ELSE IF http.kind = "axios" THEN ThrowAxios(http.status)
    ELSE ThrowError

LegacyCall(method, authenticated, url, http) ==
    /\ cls = "legacy"
    /\ last' = Call(method, NoArg, legacyFetch(authenticated, http),
                    IF authenticated THEN <<Sent(Get(url), http)>> ELSE <<>>, <<>>)
    /\ UNCHANGED <<fields, crcIn, crcOut>>

LegacyCheckBalance(http) ==
    LegacyCall("checkBalance", Truthy(username) /\ Truthy(pin) /\ Truthy(password),
               BalanceUrl, http)

LegacyFetchQrisHistory(http) ==
    LegacyCall("fetchQrisHistory", Truthy(userid) /\ Truthy(apikey), MutasiUrl("qris"), http)

LegacyFetchVirtualAccountHistory(http) ==
    LegacyCall("fetchVirtualAccountHistory", Truthy(userid) /\ Truthy(apikey),
               MutasiUrl("va"), http)

LegacyFetchRetailHistory(http) ==
    LegacyCall("fetchRetailHistory", Truthy(userid) /\ Truthy(apikey),
               MutasiUrl("retail"), http)

-----------------------------------------------------------------------------
(* Inputs.                                                                 *)

RECURSIVE SeqsUpTo(_, _)
SeqsUpTo(S, n) ==
    IF n = 0 THEN {<<>>}
    ELSE LET shorter == SeqsUpTo(S, n - 1)
         IN  shorter \cup { Append(s, x) : s \in { t \in shorter : Len(t) = n - 1 }, x \in S }

RECURSIVE Concat(_)
Concat(strs) == IF Len(strs) = 0 THEN <<>> ELSE Head(strs) \o Concat(Tail(strs))

\* a tag-length-value field: 2 characters of tag, 2 digits of length, the value
Field(tag, value) == tag \o PadStart(NatToString(Len(value)), 2, "0") \o value

PayloadFormat == Field(<<"0", "0">>, <<"0", "1">>)
ChecksumTag == <<"6", "3", "0", "4">>

\* the fields a base string is made of: the static point of initiation, two
\* merchant fields whose values read like other fields, the country code, an
\* amount and the merchant name
FieldPool ==
    << Field(<<"0", "1">>, <<"1", "1">>),
       Field(<<"2", "6">>, StaticTag),
       Field(<<"2", "6">>, CountryCode),
       Field(<<"5", "8">>, <<"I", "D">>),
       Field(<<"5", "4">>, <<"7">>),
       Field(<<"5", "9">>, <<"A", "B">>) >>

\* the payload format followed by at most MaxFields different fields, in any order
Bodies ==
    { PayloadFormat \o Concat([i \in 1..Len(picks) |-> FieldPool[picks[i]]]) :
        picks \in { q \in SeqsUpTo(1..Len(FieldPool), MaxFields) :
                        \A i, j \in 1..Len(q) : i # j => q[i] # q[j] } }

WithChecksum(body) ==
    LET data == body \o ChecksumTag IN data \o calculateCRC16(Codes(data)).value

\* the baseQrString of a configuration: absent, empty, a body with its checksum
\* field, or a body alone, as of a string that was cut short
BaseStrings ==
    {Undefined, Str(<<>>)}
    \cup { Str(WithChecksum(body)) : body \in Bodies }
    \cup { Str(body) : body \in Bodies }

Amounts ==
    {NaN, PosInf, NegInf, Num(1, 2), Num(3, 2), Num(50000, 1)}
    \cup { Num(n, 1) : n \in -1..MaxAmount }

Credential == Str(<<"u">>)

-----------------------------------------------------------------------------
(* generateQrisString and isQrisGenerationAvailable on every base string:  *)
(* a keyed client after construction, and one call.  No method writes a    *)
(* field, so a later call on the same client repeats the first.            *)

InitQris ==
    /\ cls = "keyed"
    /\ username = Credential /\ password = Credential /\ userid = Credential
    /\ apikey = Credential /\ pin = Credential
    /\ baseQrString \in BaseStrings
    /\ token = Undefined
    /\ last = NoCall
    /\ crcIn = <<>>
    /\ crcOut = [ok |-> FALSE, code |-> "idle"]

NextQris ==
    /\ last = NoCall
    /\ \/ \E amount \in Amounts : GenerateQrisString(amount)
       \/ IsQrisGenerationAvailable

SpecQris == InitQris /\ [][NextQris]_vars

-----------------------------------------------------------------------------
(* The three clients with the HTTP layer and the QR encoder around them:   *)
(* one constructor call, and on the object it returns any sequence of      *)
(* calls, each with any outcome of its request and of the encoder.         *)

MaxTime == 1

\* a credential of the configuration: absent, empty, or one of its values;
\* every field has values of its own, and pin has two
Credentials(values) == {Undefined, Str(<<>>)} \cup { Str(<<c>>) : c \in values }

ShortBody == PayloadFormat \o FieldPool[4]
ValidBase == Str(WithChecksum(ShortBody))
ClientBases == {Undefined, ValidBase, Str(PayloadFormat \o FieldPool[1])}

StoredToken == Str(<<"7", " ", "k">>)
\* the arguments of setToken
Tokens == {Str(<<>>), StoredToken}

Configs ==
    [username : Credentials({"u"}), password : Credentials({"p"}),
     userid : Credentials({"i"}), apikey : Credentials({"k"}),
     pin : Credentials({"1", "2"}),
     baseQrString : ClientBases, token : {Undefined, StoredToken}]

\* the token client keeps baseQrString without reading it
TokenConfigs == { config \in Configs : config.baseQrString \in {Undefined, ValidBase} }

TextBodies ==
    { <<>>, <<" ">>, <<"o", "k">>, <<"e", "r", "r", "o", "r">>,
      <<"A", "c", "c", "e", "s", "s", " ", "D", "e", "n", "i", "e", "d">>,
      <<"S", "a", "l", "d", "o", " ", "R", "p", " ", "1", ".", "2", "3", "4">>,
      <<"7", " ", "S", "a", "l", "d", "o", " ", "1", ".", "2", "4", "7">>,
      <<"R", "p", " ", "1", ",", "5">> }

\* JSON answers of the balance endpoint
JsonBodies ==
    { Obj([status |-> Bool(FALSE), message |-> Lit("rejected")]),
      Obj([status |-> Bool(TRUE), balance |-> Number(Num(5, 1))]),
      Obj([status |-> Bool(TRUE), message |-> Number(Num(7, 1)),
           balance |-> Number(Num(-5, 1))]) }

Denied == Obj([success |-> Bool(FALSE), message |-> Lit("denied")])

\* JSON answers of the login, menu and history endpoints
AppBodies ==
    { Denied,
      Obj([results |-> Obj([otp_value |-> Str(<<"a", "@", "b">>)])]),
      Obj([success |-> Bool(TRUE),
           results |-> Obj([token |-> Str(<<"t">>), id |-> Number(Num(9, 1))])]),
      Obj([results |-> Obj([token |-> Str(<<>>)])]),
      Obj([account |-> Obj([success |-> Bool(TRUE),
                            results |-> Obj([balance |-> Number(Num(10, 1))])])]),
      Obj([account |-> Obj([success |-> Bool(FALSE), message |-> Lit("locked")])]),
      Obj([account |-> Obj([success |-> Bool(TRUE)])]) }

\* the bodies the gateway answers the keyed and the first client with
Responses ==
    {Undefined, Null, Number(Num(3, 1)), Denied} \cup { Str(t) : t \in TextBodies }
    \cup JsonBodies

\* the bodies the app endpoints answer the token client with
AppResponses == {Undefined, Null, Str(<<"o", "k">>)} \cup AppBodies

\* what a request can end with: a response, an AxiosError without a
\* response (status 0) or with the response of an error status, or an
\* exception of another class
Failures ==
    { [kind |-> "axios", status |-> st, data |-> Undefined,
            message |-> IF st = 0 THEN "Network Error" ELSE "Request failed"] :
              st \in {0, 404, 500} }
    \cup { [kind |-> "thrown", status |-> 0, data |-> Undefined, message |-> "TypeError"] }

Ok(d) == [kind |-> "ok", status |-> 200, data |-> d, message |-> ""]
Answers == { Ok(d) : d \in Responses } \cup Failures
AppAnswers == { Ok(d) : d \in AppResponses } \cup Failures
\* the answers to a method that hands every body on as it is
PlainAnswers == {Ok(Denied), Ok(Str(<<"o", "k">>))} \cup Failures

\* what QRCode.toDataURL can end with: a data URL, a string without a
\* payload, or an exception
EncoderOutcomes ==
    { [kind |-> "url",
       url |-> <<"d", "a", "t", "a", ":", "i", "m", "a", "g", "e", "/", "p", "n", "g", ";",
                 "b", "a", "s", "e", "6", "4", ",", "Q", "U", "J", "D">>],
      [kind |-> "url", url |-> <<"d", "a", "t", "a", ":", ",">>],
      [kind |-> "url", url |-> <<>>],
      [kind |-> "thrown", url |-> <<>>] }

NoOptions == [width |-> Undefined, margin |-> Undefined, dark |-> Undefined, light |-> Undefined]
ImageOptions ==
    { NoOptions,
      [width |-> Number(Num(300, 1)), margin |-> Number(Num(0, 1)),
       dark |-> Lit("#111111"), light |-> Undefined] }

QrisStrings == {Undefined, Str(<<>>), Str(<<" ">>), Str(PayloadFormat)}

ClientAmounts == {NaN, Num(0, 1), Num(1, 1)}

AjaibAmounts ==
    {Undefined, Number(NaN), Number(Num(0, 1)), Number(Num(5, 1))}

NoHistoryOptions ==
    [keterangan |-> Undefined, jumlah |-> Undefined, page |-> Undefined,
     dari_tanggal |-> Undefined, ke_tanggal |-> Undefined]
\* the arguments of getQRISHistory
HistoryCalls ==
    { [historyType |-> "qris_history", options |-> NoHistoryOptions],
      [historyType |-> "qris_ajaib_history",
       options |-> [NoHistoryOptions EXCEPT !.page = Str(<<"2">>)]] }

Otps == {Undefined, Str(<<>>), Str(<<"1", "2">>)}

\* Date.now()
Times == 1..MaxTime

Init ==
    /\ cls = "none"
    /\ username = Undefined /\ password = Undefined /\ userid = Undefined
    /\ apikey = Undefined /\ pin = Undefined
    /\ baseQrString = Undefined
    /\ token = Undefined
    /\ last = NoCall
    /\ crcIn = <<>>
    /\ crcOut = [ok |-> FALSE, code |-> "idle"]

\* new OrderKuota(config) of one of the three classes; when it throws there
\* is no object to call
Construct ==
    /\ last = NoCall
    /\ \/ \E config \in Configs : NewKeyed(config)
       \/ \E config \in TokenConfigs : NewToken(config)
       \/ \E config \in Configs : NewLegacy(config)

KeyedCalls ==
    \/ \E http \in Answers : KeyedCheckBalance(http)
    \/ \E http \in PlainAnswers :
          \/ FetchQrisHistory(http)
          \/ FetchVirtualAccountHistory(http)
          \/ FetchRetailHistory(http)
    \/ \E amount \in ClientAmounts : GenerateQrisString(amount)
    \/ \E options \in ImageOptions, enc \in EncoderOutcomes :
          \/ \E qrisString \in QrisStrings : GenerateQrisImage(qrisString, options, enc)
          \/ \E amount \in ClientAmounts : GenerateQrisQrCode(amount, options, enc)
    \/ KeyedGetConfig
    \/ KeyedIsConfigValid
    \/ IsQrisGenerationAvailable
    \/ GetAvailableMethods
    \/ GetEndpoints

TokenCalls ==
    \/ \E http \in AppAnswers :
          \/ GetOTP(http)
          \/ \E otp \in Otps : GetToken(otp, http)
          \/ \E now \in Times :
                \/ \E h \in HistoryCalls :
                      GetQRISHistory(h.historyType, h.options, now, http)
                \/ FetchQrisMenu(now, http)
                \/ \E amount \in AjaibAmounts : GenerateQRISAjaib(amount, now, http)
                \/ TokenCheckBalance(now, http)
    \/ \E qrisString \in QrisStrings, options \in ImageOptions, enc \in EncoderOutcomes :
          GenerateQRImage(qrisString, options, enc)
    \/ \E tok \in Tokens : SetToken(tok)
    \/ GetTokenValue
    \/ TokenGetConfig
    \/ TokenIsConfigValid
    \/ HasToken

LegacyCalls ==
    \E http \in PlainAnswers :
       \/ LegacyCheckBalance(http)
       \/ LegacyFetchQrisHistory(http)
       \/ LegacyFetchVirtualAccountHistory(http)
       \/ LegacyFetchRetailHistory(http)

Next == Construct \/ KeyedCalls \/ TokenCalls \/ LegacyCalls

Spec == Init /\ [][Next]_vars

-----------------------------------------------------------------------------
(* calculateCRC16 applied on its own to strings of ASCII code units.       *)

AsciiSample == {0, 1, 49, 57, 65, 127}
Vector123456789 == <<49, 50, 51, 52, 53, 54, 55, 56, 57>>

CrcInputs == SeqsUpTo(AsciiSample, MaxCrcLen) \cup {Vector123456789}

InitCRC ==
    /\ cls = "none"
    /\ username = Undefined /\ password = Undefined /\ userid = Undefined
    /\ apikey = Undefined /\ pin = Undefined
    /\ baseQrString = Undefined /\ token = Undefined
    /\ last = NoCall
    /\ crcIn \in CrcInputs
    /\ crcOut = [ok |-> FALSE, code |-> "pending"]

ApplyCRC ==
    /\ crcOut = [ok |-> FALSE, code |-> "pending"]
    /\ crcOut' = calculateCRC16(crcIn)
    /\ UNCHANGED <<fields, last, crcIn>>

NextCRC == ApplyCRC

SpecCRC == InitCRC /\ [][NextCRC]_vars

-----------------------------------------------------------------------------
(* Reference definitions the properties are stated with.                   *)

\* CRC16-CCITT (polynomial 0x1021, initial value 0xFFFF, most significant bit
\* first, no reflection, no final XOR), bit by bit on 16-bit values: the
\* register is cut to 16 bits after every shift
RefBit(x, i) == (x \div Pow2(i)) % 2
RefXor16(a, b) ==
    LET F[i \in 0..16] ==
            IF i = 16 THEN 0
            ELSE (((RefBit(a, i) + RefBit(b, i)) % 2) * Pow2(i)) + F[i + 1]
    IN  F[0]
RefShift(reg) ==
    LET shifted == (reg * 2) % 65536
    IN  IF reg >= 32768 THEN RefXor16(shifted, 4129) ELSE shifted
RefByte(reg, byte) ==
    LET G[j \in 0..8] == IF j = 0 THEN RefXor16(reg, byte * 256) ELSE RefShift(G[j - 1])
    IN  G[8]
RECURSIVE RefRegs(_, _)
RefRegs(regs, bytes) ==
    IF Len(regs) > Len(bytes) THEN regs
    ELSE RefRegs(Append(regs, RefByte(regs[Len(regs)], bytes[Len(regs)])), bytes)
RefCRC16(bytes) == LET regs == RefRegs(<<65535>>, bytes) IN regs[Len(regs)]

UpperHex == <<"0", "1", "2", "3", "4", "5", "6", "7", "8", "9",
              "A", "B", "C", "D", "E", "F">>
RefHex4(n) ==
    << UpperHex[(n \div 4096) + 1], UpperHex[((n \div 256) % 16) + 1],
       UpperHex[((n \div 16) % 16) + 1], UpperHex[(n % 16) + 1] >>

\* the decimal representation of a natural number
RECURSIVE DecimalOf(_)
DecimalOf(n) ==
    (IF n >= 10 THEN DecimalOf(n \div 10) ELSE <<>>)
    \o <<CHOOSE c \in Range(Digits) : CharCode(c) = 48 + (n % 10)>>

IsDigit(c) == c \in Range(Digits)
DigitValue(c) == CharCode(c) - 48

\* a string read as tag-length-value fields from offset off on: the fields
\* with their offsets, and whether the string ends where a field ends
RECURSIVE ParseTLV(_, _)
ParseTLV(str, off) ==
    IF off = Len(str) THEN [ok |-> TRUE, fields |-> <<>>]
    ELSE IF off + 4 > Len(str) \/ ~IsDigit(str[off + 3]) \/ ~IsDigit(str[off + 4])
    THEN [ok |-> FALSE, fields |-> <<>>]
    ELSE LET n == (10 * DigitValue(str[off + 3])) + DigitValue(str[off + 4])
         IN  IF off + 4 + n > Len(str) THEN [ok |-> FALSE, fields |-> <<>>]
             ELSE LET rest == ParseTLV(str, off + 4 + n)
                  IN  [ok |-> rest.ok,
                       fields |-> << [off |-> off,
                                      tag |-> SubSeq(str, off + 1, off + 2),
                                      value |-> SubSeq(str, off + 5, off + 4 + n)] >>
                                  \o rest.fields]

FieldsTagged(parsed, tag) == { i \in 1..Len(parsed.fields) : parsed.fields[i].tag = tag }
IsCountryField(f) == f.tag = <<"5", "8">> /\ f.value = <<"I", "D">>

\* a base string that is a sequence of fields ending with the 4-character
\* checksum in field 63, with the country-code field and without an amount field
WellFormedBase(base) ==
    /\ Truthy(base)
    /\ LET parsed == ParseTLV(base.s, 0)
       IN  /\ parsed.ok
           /\ Len(parsed.fields) > 0
           /\ parsed.fields[Len(parsed.fields)].tag = <<"6", "3">>
           /\ Len(parsed.fields[Len(parsed.fields)].value) = 4
           /\ \E i \in 1..Len(parsed.fields) : IsCountryField(parsed.fields[i])
           /\ FieldsTagged(parsed, AmountTagId) = {}

Generated == last.method = "generateQrisString" /\ last.outcome = "return"
Output == last.value.s
IsIntegerFrom1(x) == x.k = "fin" /\ x.den = 1 /\ x.num >= 1
GreaterZero(x) == (x.k = "fin" /\ x.num > 0) \/ (x.k = "inf" /\ x.num > 0)

\* the base string without its last 4 characters, where the amount segment
\* goes in it, and the output without the segment and without its checksum
Stripped == SubSeq(baseQrString.s, 1, Len(baseQrString.s) - 4)
SegmentAt == IndexOf(Stripped, CountryCode)
SegmentLen == Len(Output) - Len(baseQrString.s)
Segment == SubSeq(Output, SegmentAt + 1, SegmentAt + SegmentLen)
AroundSegment ==
    SubSeq(Output, 1, SegmentAt)
    \o SubSeq(Output, SegmentAt + SegmentLen + 1, Len(Output) - 4)

-----------------------------------------------------------------------------
(* C1: for every non-empty string of ASCII characters calculateCRC16       *)
(* returns the CRC16-CCITT checksum of the string, as the bit-by-bit       *)
(* reference that masks to 16 bits after every shift computes it, written  *)
(* as 4 upper-case hex digits; '123456789' yields '29B1'.                  *)
C1_CrcIsCcitt ==
    (Len(crcIn) > 0 /\ crcOut # [ok |-> FALSE, code |-> "pending"]) =>
        /\ crcOut.ok
        /\ crcOut.value = RefHex4(RefCRC16(crcIn))
        /\ (crcIn = Vector123456789 => crcOut.value = <<"2", "9", "B", "1">>)

C1_Witness ==
    crcIn = Vector123456789 /\ crcOut = [ok |-> TRUE, value |-> <<"2", "9", "B", "1">>]

(* C2: every string generateQrisString returns ends with exactly 4         *)
(* characters out of 0-9 and A-F, and these are the calculateCRC16 value   *)
(* of all the characters before them.                                      *)
C2_EndsWithChecksum ==
    Generated =>
        /\ Len(Output) > 4
        /\ \A i \in (Len(Output) - 3)..Len(Output) : Output[i] \in Range(UpperHex)
        /\ LET sum == calculateCRC16(Codes(SubSeq(Output, 1, Len(Output) - 4)))
           IN  sum.ok /\ sum.value = SubSeq(Output, Len(Output) - 3, Len(Output))

\* a checksum below 0x1000, which padStart fills up with a zero
C2_Witness ==
    /\ Generated
    /\ Output[Len(Output) - 3] = "0"
    /\ last.arg = Num(50000, 1)

(* C3: for a base string that is a well-formed sequence of fields ending   *)
(* with the checksum, with the country-code field 5802ID and no amount     *)
(* field, and an integer amount X >= 1, the output read as fields has      *)
(* exactly one field with tag 54, directly before the country-code field,  *)
(* and its value is the decimal representation of X.                       *)
C3_RoundTrip ==
    (/\ last.method = "generateQrisString"
     /\ WellFormedBase(baseQrString)
     /\ IsIntegerFrom1(last.arg)) =>
        /\ last.outcome = "return"
        /\ LET parsed == ParseTLV(Output, 0)
               amounts == FieldsTagged(parsed, AmountTagId)
           IN  /\ parsed.ok
               /\ Cardinality(amounts) = 1
               /\ \A i \in amounts :
                    /\ parsed.fields[i].value = DecimalOf(last.arg.num)
                    /\ i < Len(parsed.fields)
                    /\ IsCountryField(parsed.fields[i + 1])

(* C4: in every successful generateQrisString(amount) the inserted segment *)
(* is '54', the number of decimal digits of floor(amount) as 2 digits, and *)
(* the decimal digits of floor(amount); 50000 gives '540550000'.           *)
C4_AmountSegment ==
    Generated =>
        /\ last.arg.k = "fin"
        /\ LET digits == DecimalOf(last.arg.num \div last.arg.den)
           IN  Segment = AmountTagId
                         \o <<UpperHex[(Len(digits) \div 10) + 1],
                              UpperHex[(Len(digits) % 10) + 1]>>
                         \o digits
        /\ (last.arg = Num(50000, 1) =>
                Segment = <<"5", "4", "0", "5", "5", "0", "0", "0", "0">>)

(* C5: the amount segment is inserted immediately before the first         *)
(* occurrence of '5802ID' in the checksum-stripped base string, every      *)
(* character of that stripped string appears in the output unchanged and   *)
(* in the same order around the segment, and the output is as long as the  *)
(* base string plus the segment.                                           *)
InsertedAround(text) ==
    LET seg == NominalTag(MathFloor(last.arg))
        at == IndexOf(Stripped, CountryCode)
    IN  /\ Len(Output) = Len(baseQrString.s) + Len(seg)
        /\ at >= 0
        /\ SubSeq(Output, at + 1, at + Len(seg)) = seg
        /\ SubSeq(Output, 1, at) = SubSeq(text, 1, at)
        /\ SubSeq(Output, at + Len(seg) + 1, Len(Output) - 4)
               = SubSeq(text, at + 1, Len(text))

C5_StrippedUnchanged == Generated => InsertedAround(Stripped)

\* the stripped base string with the last character of its first '010211' set to '2'
StrippedFlipped ==
    LET flip == IndexOf(Stripped, StaticTag)
    IN  [i \in 1..Len(Stripped) |->
            IF flip >= 0 /\ i = flip + Len(StaticTag) THEN "2" ELSE Stripped[i]]

(* C5, amended: as above, but the last character of the first '010211' of  *)
(* the stripped string, when there is one, reads '2' in the output.        *)
C5_StrippedButFlip == Generated => InsertedAround(StrippedFlipped)

C5_Witness ==
    /\ Generated
    /\ Includes(Stripped, StaticTag)
    /\ WellFormedBase(baseQrString)
    /\ IndexOf(Stripped, StaticTag) < IndexOf(Stripped, CountryCode)
    /\ last.arg = Num(3, 2)

(* C6: generateQrisString discards exactly the last 4 characters of the    *)
(* base string; the output reads '010212' wherever the base string carried *)
(* the point-of-initiation field '010211', no other '010211' of the base   *)
(* is rewritten, and a base without '010211' keeps its characters.         *)
PointOfInitiationAt(str) ==
    LET parsed == ParseTLV(str, 0)
    IN  { parsed.fields[i].off : i \in { j \in 1..Len(parsed.fields) :
            /\ parsed.fields[j].tag = <<"0", "1">>
            /\ parsed.fields[j].value = <<"1", "1">> } }

C6_OnlyInitiationTagFlipped ==
    (Generated /\ ParseTLV(baseQrString.s, 0).ok) =>
        AroundSegment =
            [i \in 1..Len(Stripped) |->
                IF \E off \in PointOfInitiationAt(baseQrString.s) : i = off + 6
                THEN "2" ELSE Stripped[i]]

(* C7: whenever isQrisGenerationAvailable() is true, generateQrisString    *)
(* returns a string for every amount greater than 0 and never fails with   *)
(* MISSING_BASE_QR_STRING or INVALID_QRIS_FORMAT; whenever it is false,    *)
(* generateQrisString fails for every amount.                              *)
C7_GuardIsSound ==
    last.method = "generateQrisString" =>
        /\ (isQrisGenerationAvailable(baseQrString) /\ GreaterZero(last.arg))
                => last.outcome = "return"
        /\ isQrisGenerationAvailable(baseQrString)
                => last.error.code \notin {"MISSING_BASE_QR_STRING", "INVALID_QRIS_FORMAT"}
        /\ ~isQrisGenerationAvailable(baseQrString) => last.outcome = "throw"

(* C8: generateQrisString reports the first failure only: an amount that   *)
(* is zero, negative or not a number gives INVALID_AMOUNT; otherwise a     *)
(* missing or empty base string gives MISSING_BASE_QR_STRING; otherwise a  *)
(* base string without '5802ID' gives INVALID_QRIS_FORMAT; each time the   *)
(* call rejects with an OrderKuotaError and returns no string.             *)
AmountRejected(x) ==
    \/ x.k = "nan"
    \/ x.k = "fin" /\ x.num <= 0
    \/ x.k = "inf" /\ x.num < 0
BaseMissing(base) == base = Undefined \/ base = Str(<<>>)
Rejected(code) ==
    /\ last.outcome = "throw"
    /\ last.error = [class |-> "OrderKuotaError", code |-> code, status |-> 0]
    /\ last.value = Undefined

C8_ValidationOrder ==
    last.method = "generateQrisString" =>
        /\ AmountRejected(last.arg) => Rejected("INVALID_AMOUNT")
        /\ (~AmountRejected(last.arg) /\ BaseMissing(baseQrString))
                => Rejected("MISSING_BASE_QR_STRING")
        /\ (/\ ~AmountRejected(last.arg)
            /\ ~BaseMissing(baseQrString)
            /\ ~Includes(baseQrString.s, CountryCode))
                => Rejected("INVALID_QRIS_FORMAT")

\* an invalid amount on a client without a base string: the amount is reported
C8_Witness ==
    /\ last.method = "generateQrisString"
    /\ last.arg = NaN
    /\ baseQrString = Undefined
    /\ Rejected("INVALID_AMOUNT")

-----------------------------------------------------------------------------
(* The class whose constructor or method made the last call.               *)
CallerClass == IF last.method = "constructor" THEN last.arg.class ELSE cls

Threw == last.outcome = "throw"

TypedWithin(codes) == last.error.class = "OrderKuotaError" /\ last.error.code \in codes

HttpFailed == \E i \in DOMAIN last.requests : last.requests[i].http.kind = "axios"

\* the call rejected with a typed error that carries the status of the answer
RejectedWithStatus ==
    /\ Threw
    /\ last.error.class = "OrderKuotaError"
    /\ last.error.code # "none"
    /\ \A i \in DOMAIN last.requests : last.error.status = last.requests[i].http.status

-----------------------------------------------------------------------------
\* the code each history operation of the keyed client reports its failure with
FetchCode(method) ==
    CASE method = "fetchQrisHistory" -> "QRIS_FETCH_FAILED"
      [] method = "fetchVirtualAccountHistory" -> "VA_FETCH_FAILED"
      [] method = "fetchRetailHistory" -> "RETAIL_FETCH_FAILED"

IsFetch == last.method \in {"fetchQrisHistory", "fetchVirtualAccountHistory", "fetchRetailHistory"}

\* the outcome of the one request of the last call
Answer == last.requests[1].http

(* C11: in the keyed client a failed HTTP request of fetchQrisHistory,      *)
(* fetchVirtualAccountHistory or fetchRetailHistory is rejected with the    *)
(* code of that operation and with the status of the response (none when    *)
(* there was no response); any other exception is rejected as UNKNOWN_ERROR.*)
C11_FetchFailureCode ==
    (cls = "keyed" /\ IsFetch) =>
        /\ Answer.kind = "axios" =>
              /\ Threw
              /\ TypedWithin({FetchCode(last.method)})
              /\ last.error.status = Answer.status
        /\ Answer.kind = "thrown" => Threw /\ TypedWithin({"UNKNOWN_ERROR"})

C11_Witness ==
    /\ cls = "keyed"
    /\ last.method = "fetchVirtualAccountHistory"
    /\ Answer.kind = "axios"
    /\ Answer.status = 500
    /\ last.error.code = "VA_FETCH_FAILED"
    /\ last.error.status = 500

-----------------------------------------------------------------------------
\* the balance API answered with an error: a text with an error indicator,
\* or a JSON body whose status is false
BalanceApiError(data) ==
    \/ data.t = "string" /\ HasErrorIndicator(data.s)
    \/ data.t = "object" /\ Prop(data, "status") = Bool(FALSE)

IsKeyedCheckBalance == cls = "keyed" /\ last.method = "checkBalance"

(* C12: whenever the balance API answers with an error, in a text body     *)
(* with an error indicator or in a JSON body with status false,            *)
(* checkBalance of the keyed client rejects with BALANCE_CHECK_FAILED.     *)
C12_ApiErrorIsBalanceCheckFailed ==
    (IsKeyedCheckBalance /\ Answer.kind = "ok" /\ BalanceApiError(Answer.data)) =>
        Threw /\ TypedWithin({"BALANCE_CHECK_FAILED"})

-----------------------------------------------------------------------------
\* a configuration field that is absent or empty
Missing(v) == v = Undefined \/ v = Str(<<>>)

IsNew(class) == last.method = "constructor" /\ last.arg.class = class

RejectedMissingConfig == Threw /\ TypedWithin({"MISSING_CONFIG"})

(* C13: the constructor of the keyed client throws MISSING_CONFIG if and   *)
(* only if one of username, password, userid, apikey, pin is absent or     *)
(* empty, and that of the token client if and only if username or password *)
(* is; otherwise the object exists.  baseQrString and token play no part.  *)
C13_MissingConfig ==
    /\ IsNew("keyed") =>
          /\ RejectedMissingConfig <=>
                \E f \in {"username", "password", "userid", "apikey", "pin"} :
                    Missing(last.arg.config[f])
          /\ ~Threw => cls = "keyed"
    /\ IsNew("token") =>
          /\ RejectedMissingConfig <=>
                \E f \in {"username", "password"} : Missing(last.arg.config[f])
          /\ ~Threw => cls = "token"

C13_Witness ==
    /\ IsNew("keyed")
    /\ last.arg.config.pin = Str(<<>>)
    /\ \A f \in {"username", "password", "userid", "apikey"} : Truthy(last.arg.config[f])
    /\ last.arg.config.baseQrString = ValidBase
    /\ RejectedMissingConfig
    /\ cls = "none"

-----------------------------------------------------------------------------
NeedsToken == last.method \in {"getQRISHistory", "fetchQrisMenu", "generateQRISAjaib"}

\* the last call was a getToken that resolved with status 'success'
GetTokenSucceeded(call) ==
    /\ call.method = "getToken"
    /\ call.outcome = "return"
    /\ Prop(call.value, "status") = Lit("success")

\* a step that gives a token to a token client that had none
TokenAppears == cls' = "token" /\ ~Truthy(token) /\ Truthy(token')

\* the three ways to a stored token: the configuration, setToken of a
\* non-empty value, a successful getToken
TokenGiven ==
    \/ last'.method = "constructor" /\ Truthy(last'.arg.config.token)
    \/ last'.method = "setToken" /\ Truthy(last'.arg)
    \/ GetTokenSucceeded(last')

NoTokenRejects ==
    (cls = "token" /\ NeedsToken /\ ~Truthy(token)) =>
        /\ Threw
        /\ TypedWithin({"INVALID_CREDENTIALS"})
        /\ last.requests = <<>>

(* C14: in the token client getQRISHistory, fetchQrisMenu and              *)
(* generateQRISAjaib called while no token is stored reject with           *)
(* INVALID_CREDENTIALS and send no request; and no token is stored unless  *)
(* the configuration had one, setToken was given a non-empty value or a    *)
(* getToken succeeded.                                                     *)
C14_NoTokenNoRequest == [](NoTokenRejects) /\ [][TokenAppears => TokenGiven]_vars

C14_Witness ==
    /\ cls = "token"
    /\ last.method = "generateQRISAjaib"
    /\ last.arg = Number(Num(5, 1))
    /\ token = Undefined
    /\ Threw
    /\ last.error.code = "INVALID_CREDENTIALS"
    /\ last.requests = <<>>

-----------------------------------------------------------------------------
IsGetToken == cls = "token" /\ last.method = "getToken"

NonEmptyString(v) == v.t = "string" /\ Len(v.s) > 0

\* the login request was answered, with success different from false and
\* with a non-empty results.token
LoginCarriesToken ==
    /\ last.requests # <<>>
    /\ Answer.kind = "ok"
    /\ Prop(Answer.data, "success") # Bool(FALSE)
    /\ NonEmptyString(Prop(Prop(Answer.data, "results"), "token"))

GetTokenResult ==
    IsGetToken =>
        /\ GetTokenSucceeded(last) <=> LoginCarriesToken
        /\ GetTokenSucceeded(last) =>
              /\ token = Prop(last.value, "token")
              /\ token = Prop(Prop(Answer.data, "results"), "token")
        /\ Missing(last.arg) =>
              /\ Threw /\ TypedWithin({"INVALID_CREDENTIALS"})
              /\ last.requests = <<>>

\* a getToken that does not succeed leaves the token alone, and after one
\* that succeeds hasToken() and getTokenValue() show the token returned
GetTokenStep ==
    /\ (last'.method = "getToken" /\ ~GetTokenSucceeded(last')) => token' = token
    /\ (GetTokenSucceeded(last) /\ last'.method = "hasToken") => last'.value = Bool(TRUE)
    /\ (GetTokenSucceeded(last) /\ last'.method = "getTokenValue") =>
          last'.value = Prop(last.value, "token")

-----------------------------------------------------------------------------
NonPositive(x) == (x.k = "fin" /\ x.num <= 0) \/ x = NegInf

\* the last call failed a precondition or the validation of its argument
PreconditionFailed ==
    \/ cls = "token" /\ (NeedsToken \/ last.method = "checkBalance") /\ ~Truthy(token)
    \/ cls = "token" /\ last.method = "getToken" /\ Missing(last.arg)
    \/ cls = "token" /\ last.method = "generateQRISAjaib"
          /\ last.arg # Undefined /\ NonPositive(last.arg.n)

\* the methods that never talk to the server
Offline ==
    {"generateQrisString", "generateQrisImage", "generateQRImage", "getConfig",
     "isConfigValid", "isQrisGenerationAvailable", "getAvailableMethods", "getEndpoints",
     "setToken", "getTokenValue", "hasToken"}

MenuUrl == <<Lit("https://app.orderkuota.com/api/v2/qris/menu/"), TokenId(token.s)>>

-----------------------------------------------------------------------------
(* C17: frame of the calls.                                                *)

CredentialFields == <<cls, username, password, userid, apikey, pin, baseQrString>>
KeyedFrame == cls = "keyed" => fields' = fields
TokenFrame ==
    cls = "token" =>
        /\ CredentialFields' = CredentialFields
        /\ token' # token =>
               \/ last'.method = "setToken"
               \/ last'.method = "getToken" /\ GetTokenSucceeded(last')
\* the stored result of a keyed call is the function of the fields, the
\* argument and the answer, whatever call came before it
KeyedFromConfig ==
    cls = "keyed" =>
        /\ last.method = "generateQrisString" =>
               Call("generateQrisString", last.arg,
                    generateQrisString(baseQrString, last.arg), <<>>, <<>>) = last
        /\ last.method = "checkBalance" =>
               LET result == keyedCheckBalance(last.requests[1].http)
               IN  /\ last.outcome = result.outcome
                   /\ last.value = result.value
                   /\ last.error = result.error
                   /\ last.requests[1].request = Get(BalanceUrl)

(* C17: no call on the keyed client changes a field, and the result of a   *)
(* call is a function of the fields, the arguments and the HTTP answer; on *)
(* the token client only token changes, and only in setToken and in a      *)
(* getToken call whose response carries a token.                           *)
C17_CallsAreStateless ==
    [](KeyedFromConfig) /\ [][KeyedFrame /\ TokenFrame]_vars

C17_Witness ==
    /\ cls = "keyed"
    /\ Generated
    /\ baseQrString = ValidBase

-----------------------------------------------------------------------------
(* C18: generateQrisQrCode against the composition of its two steps.       *)

IsQrCode == cls = "keyed" /\ last.method = "generateQrisQrCode"
SameResult(result) ==
    /\ last.outcome = result.outcome
    /\ last.value = result.value
    /\ last.error = result.error
\* the string step of the composition, for the amount of the last call
StringStep == generateQrisString(baseQrString, last.arg.amount)
\* the call is the image step on the generated string for one encoder outcome
ImageStep ==
    \E enc \in EncoderOutcomes :
        /\ SameResult(generateQrisImage(StringStep.value, enc))
        /\ last.encoded = Encoded(StringStep.value, last.arg.options, enc)

(* C18: generateQrisQrCode(amount, options) has the result of              *)
(* generateQrisImage(generateQrisString(amount), options): when the string *)
(* step throws, the call throws the same error and the encoder is not      *)
(* invoked; otherwise the call has the image step's result, error code     *)
(* included, for the encoder outcome it met.                               *)
C18_QrCodeIsComposition ==
    IsQrCode =>
        /\ last.requests = <<>>
        /\ IF StringStep.outcome = "throw"
           THEN SameResult(StringStep) /\ last.encoded = <<>>
           ELSE ImageStep

C18_Witness ==
    /\ IsQrCode
    /\ StringStep.outcome = "return"
    /\ last.outcome = "return"
    /\ Len(last.encoded) = 1
    /\ last.encoded[1].text = StringStep.value.s

-----------------------------------------------------------------------------
(* C19: getConfig of the keyed client.                                     *)

IsKeyedGetConfig == cls = "keyed" /\ last.method = "getConfig"
Sensitive == {"password", "pin", "apikey", "baseQrString"}

(* C19: getConfig() of the keyed client returns an object of exactly the   *)
(* two entries username and userid, with the values of these fields; it    *)
(* has no entry password, pin, apikey or baseQrString, and being a         *)
(* function of username and userid alone it is the same for two clients    *)
(* that differ in those four fields only.                                  *)
C19_GetConfigNotSensitive ==
    IsKeyedGetConfig =>
        /\ last.outcome = "return"
        /\ last.value = Obj([username |-> username, userid |-> userid])
        /\ DOMAIN last.value.o \cap Sensitive = {}
        /\ last.requests = <<>>

C19_Witness ==
    /\ IsKeyedGetConfig
    /\ pin = Str(<<"2">>)
    /\ baseQrString = ValidBase
    /\ last.value.o.username = Str(<<"u">>)
    /\ last.value.o.userid = Str(<<"i">>)

-----------------------------------------------------------------------------
(* C20: getEndpoints against the requests of the four request methods.     *)

EndpointNames == {"balance", "qrisHistory", "vaHistory", "retailHistory"}
\* the entry of getEndpoints() that belongs to a request method
EntryOf(method) ==
    CASE method = "checkBalance" -> "balance"
      [] method = "fetchQrisHistory" -> "qrisHistory"
      [] method = "fetchVirtualAccountHistory" -> "vaHistory"
      [] method = "fetchRetailHistory" -> "retailHistory"
IsGetEndpoints == cls = "keyed" /\ last.method = "getEndpoints"
EndpointsShape ==
    IsGetEndpoints =>
        /\ last.outcome = "return"
        /\ last.value.t = "object"
        /\ DOMAIN last.value.o = EndpointNames
        /\ last.requests = <<>>
\* a request method called right after getEndpoints requests the URL of
\* its entry
RequestsItsEndpoint ==
    /\ IsGetEndpoints
    /\ last'.method \in {"checkBalance", "fetchQrisHistory",
                         "fetchVirtualAccountHistory", "fetchRetailHistory"}
    => /\ Len(last'.requests) = 1
       /\ last'.requests[1].request.verb = "GET"
       /\ last'.requests[1].request.url = last.value.o[EntryOf(last'.method)]

(* C20: getEndpoints() returns the four entries balance, qrisHistory,      *)
(* vaHistory and retailHistory, and each of them is the URL, credentials   *)
(* included, that checkBalance, fetchQrisHistory,                          *)
(* fetchVirtualAccountHistory and fetchRetailHistory request on the same   *)
(* client.                                                                 *)
C20_EndpointsAreRequested ==
    [](EndpointsShape) /\ [][RequestsItsEndpoint]_vars

C20_Witness ==
    /\ IsGetEndpoints
    /\ last.value.o.balance =
           << Lit("https://h2h.okeconnect.com/trx/balance?memberID="), Str(<<"i">>),
              Lit("&pin="), Str(<<"2">>), Lit("&password="), Str(<<"p">>) >>
    /\ last.value.o.vaHistory =
           << Lit("https://gateway.okeconnect.com/api/mutasi/"), Lit("va"), Lit("/"),
              Str(<<"i">>), Lit("/"), Str(<<"k">>) >>

-----------------------------------------------------------------------------
(* C21: generateQRImage of the token client on an empty QRIS string.       *)

IsQRImage == cls = "token" /\ last.method = "generateQRImage"
EncoderFailed == Len(last.encoded) = 1 /\ last.encoded[1].enc.kind = "thrown"

(* C21: generateQRImage called with an empty QRIS string rejects with the  *)
(* code INVALID_RESPONSE and without a call of the QR encoder, and a       *)
(* rejection with QR_GENERATION_FAILED happens only when the encoder       *)
(* itself failed.                                                          *)
C21_EmptyStringIsInvalidResponse ==
    IsQRImage =>
        /\ ~Truthy(last.arg.qrisString) =>
               /\ Threw /\ TypedWithin({"INVALID_RESPONSE"})
               /\ last.encoded = <<>>
        /\ Threw /\ TypedWithin({"QR_GENERATION_FAILED"}) => EncoderFailed

-----------------------------------------------------------------------------
(* C22: the shape of a resolved balance.                                   *)

Resolved == last.outcome = "return"
\* a non-empty string, as a value or as a constant of the source
IsMessage(v) ==
    \/ v.t = "string" /\ Len(v.s) > 0
    \/ v.t = "literal" /\ v.text # ""
\* a number that is neither NaN nor negative
IsAmount(v) ==
    /\ v.t = "number"
    /\ v.n.k # "nan"
    /\ ~(v.n.k = "fin" /\ v.n.num < 0)
    /\ ~(v.n.k = "inf" /\ v.n.num < 0)
BalanceShape(value) ==
    /\ value.t = "object"
    /\ Truthy(Prop(value, "status"))
    /\ IsMessage(Prop(value, "message"))
    /\ IsAmount(Prop(value, "balance"))

(* C22: whenever checkBalance of the keyed client resolves, for a text     *)
(* body as well as for a JSON body, the status of the result is truthy,    *)
(* its message is a non-empty string and its balance is a number that is   *)
(* neither negative nor NaN.                                               *)
C22_ResolvedBalanceShape ==
    (IsKeyedCheckBalance /\ Resolved) => BalanceShape(last.value)

-----------------------------------------------------------------------------
(* C23: the balance stated in a text response.                             *)

Saldo == <<"s", "a", "l", "d", "o">>
\* the positions after which the word Saldo stands in the text
SaldoAt(str) == { i \in 0..Len(str) : StartsAt(ToLowerCase(str), Saldo, i) }
RECURSIVE GroupedRun(_, _)
\* digits and '.' from position i on: the position after the run
GroupedRun(str, i) ==
    IF i < Len(str) /\ (str[i + 1] \in Range(Digits) \/ str[i + 1] = ".")
    THEN GroupedRun(str, i + 1) ELSE i
\* the integer written after Saldo, with or without Rp, '.' between its
\* groups of digits
StatedFrom(str, i) ==
    LET from == SkipWord(str, <<"r", "p">>, SkipSpaces(str, i + Len(Saldo)))
    IN  SelectSeq(Slice(str, from, GroupedRun(str, from)), LAMBDA c : c # ".")
StatesBalance(str) ==
    /\ ~HasErrorIndicator(str)
    /\ \E i \in SaldoAt(str) : Len(StatedFrom(str, i)) > 0
StatedBalance(str) ==
    DigitsValue(StatedFrom(str, CHOOSE i \in SaldoAt(str) : Len(StatedFrom(str, i)) > 0))

(* C23: for a text response without error indicator that states the       *)
(* balance as an integer after the word Saldo, with '.' as thousands       *)
(* separator, checkBalance of the keyed client resolves with that integer  *)
(* as balance, also when other digits stand before it in the text, and     *)
(* with the trimmed text as message.                                       *)
C23_StatedBalanceIsReturned ==
    (/\ IsKeyedCheckBalance
     /\ Answer.kind = "ok"
     /\ Answer.data.t = "string"
     /\ StatesBalance(Trim(Answer.data.s)))
    => /\ Resolved
       /\ Prop(last.value, "message") = Str(Trim(Answer.data.s))
       /\ Prop(last.value, "balance") = Number(Num(StatedBalance(Trim(Answer.data.s)), 1))

-----------------------------------------------------------------------------
(* C24: the order of the checks of generateQRISAjaib.                      *)

IsAjaib == cls = "token" /\ last.method = "generateQRISAjaib"
\* the amount of the call: the argument, or the default without one
GivenAmount == IF last.arg = Undefined THEN Num(DefaultAjaibAmount, 1) ELSE last.arg.n
CarriesAmount ==
    /\ Len(last.requests) = 1
    /\ last.requests[1].request.verb = "POST"
    /\ last.requests[1].request.body.amount = NumberToString(GivenAmount)
    /\ last.requests[1].request.body.auth_username = username
    /\ last.requests[1].request.body.auth_token = token

(* C24: generateQRISAjaib without a token rejects with                     *)
(* INVALID_CREDENTIALS whatever the amount; with a token and an amount     *)
(* that is not greater than 0 it rejects with INVALID_AMOUNT and sends no  *)
(* request; with a token and an amount greater than 0 it sends exactly one *)
(* request, which carries the amount, the username and the stored token.   *)
C24_TokenThenAmount ==
    IsAjaib =>
        /\ ~Truthy(token) => Rejected("INVALID_CREDENTIALS") /\ last.requests = <<>>
        /\ Truthy(token) /\ ~GreaterZero(GivenAmount) =>
               Rejected("INVALID_AMOUNT") /\ last.requests = <<>>
        /\ Truthy(token) /\ GreaterZero(GivenAmount) => CarriesAmount

-----------------------------------------------------------------------------
(* C25: checkBalance of the token client.                                  *)

IsTokenCheckBalance == cls = "token" /\ last.method = "checkBalance"
\* the account section of the menu the request was answered with
MenuAccount ==
    IF last.requests # <<>> /\ Answer.kind = "ok"
       /\ Prop(Answer.data, "success") # Bool(FALSE)
    THEN Prop(Answer.data, "account") ELSE Undefined
AccountReported ==
    /\ Truthy(token)
    /\ Prop(MenuAccount, "success") = Bool(TRUE)
    /\ Truthy(Prop(MenuAccount, "results"))
Reported(name) == OrElse(Prop(Prop(MenuAccount, "results"), name), Number(Num(0, 1)))

-----------------------------------------------------------------------------
(* C26: when the request methods of the token client reject.               *)

RequestMethods ==
    {"getOTP", "getToken", "getQRISHistory", "fetchQrisMenu", "generateQRISAjaib"}
IsRequestMethod == cls = "token" /\ last.method \in RequestMethods
RequestSent == last.requests # <<>>

(* C26: getOTP, getToken, getQRISHistory, fetchQrisMenu and                *)
(* generateQRISAjaib of the token client reject only for a precondition    *)
(* that fails before any request is sent (empty OTP, missing token,        *)
(* non-positive amount), and getOTP never rejects; once the request has    *)
(* been sent the call resolves, with success false when the request        *)
(* failed.                                                                 *)
C26_RejectsOnlyBeforeRequest ==
    IsRequestMethod =>
        /\ Threw =>
               /\ ~RequestSent
               /\ PreconditionFailed
               /\ TypedWithin({"INVALID_CREDENTIALS", "INVALID_AMOUNT"})
        /\ last.method = "getOTP" => Resolved /\ RequestSent
        /\ RequestSent =>
               /\ Resolved
               /\ Answer.kind # "ok" =>
                      /\ Prop(last.value, "success") = Bool(FALSE)
                      /\ Truthy(Prop(last.value, "message"))

C26_Witness ==
    /\ IsRequestMethod
    /\ last.method = "getQRISHistory"
    /\ RequestSent
    /\ Answer.kind = "axios"
    /\ Resolved
    /\ Prop(last.value, "success") = Bool(FALSE)

-----------------------------------------------------------------------------
(* C27: a stored token survives every failure.                             *)

Stored == cls = "token" /\ Truthy(token)
\* hasToken() answers whether a token is stored
HasTokenAnswer ==
    (cls = "token" /\ last.method = "hasToken") => last.value = Bool(Truthy(token))
\* from a state with a token: the token stays as it is, unless the step is
\* setToken or a getToken that succeeds, and it is still there after the
\* step unless the step is setToken with an empty value
TokenKept ==
    Stored =>
        /\ token' # token =>
               \/ last'.method = "setToken" /\ token' = last'.arg
               \/ GetTokenSucceeded(last') /\ token' = Prop(last'.value, "token")
        /\ ~Truthy(token') => last'.method = "setToken" /\ ~Truthy(last'.arg)

(* C27: in the token client a stored token is never lost by a failure:     *)
(* once hasToken() is true, the token keeps its value across getOTP,       *)
(* getQRISHistory, fetchQrisMenu, generateQRISAjaib, checkBalance,         *)
(* generateQRImage and every getToken that does not succeed; only setToken *)
(* and a successful getToken replace it, and only setToken with an empty   *)
(* value removes it.                                                       *)
C27_TokenSurvivesFailure ==
    [](HasTokenAnswer) /\ [][TokenKept]_vars

C27_Witness ==
    /\ Stored
    /\ token = StoredToken
    /\ last.method = "getToken"
    /\ last.requests # <<>>
    /\ Answer.kind = "axios"
    /\ Prop(last.value, "success") = Bool(FALSE)

-----------------------------------------------------------------------------
(* C28: isConfigValid on the clients that exist.                           *)

IsConfigValidCall == cls \in {"keyed", "token"} /\ last.method = "isConfigValid"
\* the fields isConfigValid() of each class reads
Required ==
    IF cls = "keyed" THEN <<username, pin, userid, apikey, password>>
    ELSE <<username, password>>
RequiredPresent ==
    cls \in {"keyed", "token"} => \A i \in 1..Len(Required) : Truthy(Required[i])

(* C28: every keyed and every token client that exists has the fields      *)
(* that isConfigValid() reads, in every reachable state, so isConfigValid() *)
(* returns true whenever it is called.                                     *)
C28_ConfigAlwaysValid ==
    /\ RequiredPresent
    /\ IsConfigValidCall => last.value = Bool(TRUE) /\ Resolved

C28_Witness ==
    /\ IsConfigValidCall
    /\ cls = "token"
    /\ last.value = Bool(TRUE)
    /\ token = Str(<<>>)

====
